---- MODULE Spec2Model ----
(***************************************************************************)
(* A model of the KeyBoardGen genetic engine (package genetic, fitness and *)
(* runner).  Characters are small naturals: 0 is the null code point, the  *)
(* alphabet character set is 1..AlphabetSize and the full keyboard set is  *)
(* 1..FullSize.  Fitness values are integers in hundredths (0.99 is 99).   *)
(* Every random draw of the code (math/rand) is a nondeterministic choice. *)
(***************************************************************************)
EXTENDS Integers, Sequences, FiniteSets, TLC

VARIABLES
    opIn,               \* the operator call under study: its name and inputs
    opOut,              \* the value the call returned
    pc,                 \* ParallelGA.Run: "new", "loop", "done", "panic"
    config,             \* pga.config (genetic.Config), with the evaluator's data
    charset,            \* pga.charset
    population,         \* Run's local population
    bestIndividual,     \* Run's local bestIndividual
    bestFitness,        \* Run's local bestFitness
    bestInitialized,    \* Run's local bestInitialized
    lastBestFitness,    \* Run's local lastBestFitness
    convergenceCount,   \* Run's local convergenceCount
    generation,         \* the loop variable of Run: the next generation index
    observed,           \* what the callback received, in order
    cancelled,          \* ctx.Done() is closed
    result,             \* the Individual Run returned
    err,                \* the error Run returned: "nil" or "cancelled"
    stopReason,         \* why the loop of Run ended
    handed              \* the individuals handed to the evaluator by the last step

opVars == <<opIn, opOut>>
runVars == <<pc, config, charset, population, bestIndividual, bestFitness,
             bestInitialized, lastBestFitness, convergenceCount, generation,
             observed, cancelled, result, err, stopReason, handed>>
vars == <<opIn, opOut, pc, config, charset, population, bestIndividual,
          bestFitness, bestInitialized, lastBestFitness, convergenceCount,
          generation, observed, cancelled, result, err, stopReason, handed>>

----------------------------------------------------------------------------
(* Bounds of the model *)

\* size of the alphabet character set (26 in the source)
AlphabetSize == 2
\* size of the full keyboard character set (70 in the source)
FullSize == 3

\* size of the custom character set the operators are also applied to
CustomSize == 4

Null == 0

Min(a, b) == IF a < b THEN a ELSE b
Max(a, b) == IF a > b THEN a ELSE b

Range(s) == {s[i] : i \in 1..Len(s)}

----------------------------------------------------------------------------
(* CharacterSet *)

NewCharacterSet(name, chars) ==
    [Name |-> name, Characters |-> chars, Size |-> Len(chars)]

\* a nil *CharacterSet
NilCharset == [Name |-> "nil", Characters |-> <<>>, Size |-> 0]

AlphabetOnly == NewCharacterSet("alphabet", [i \in 1..AlphabetSize |-> i])

FullKeyboardCharset == NewCharacterSet("full_keyboard", [i \in 1..FullSize |-> i])

\* CustomCharset("test", ...) over CustomSize distinct characters
TestCharset == NewCharacterSet("test", [i \in 1..CustomSize |-> i])

Charsets == {AlphabetOnly, FullKeyboardCharset}

Contains(cs, char) == \E i \in 1..Len(cs.Characters) : cs.Characters[i] = char

\* the scan that does not ask whether the set contains the character
RECURSIVE IsValidScanAnyChar(_, _, _, _)
IsValidScanAnyChar(cs, layout, i, seen) ==
    IF i > Len(layout) THEN Cardinality(seen) = cs.Size
    ELSE LET char == layout[i] IN
         IF char = Null THEN FALSE
         ELSE IF char \in seen THEN FALSE
         ELSE IsValidScanAnyChar(cs, layout, i + 1, seen \cup {char})

\* the loop of IsValid from position i on, seen being the characters met so far
RECURSIVE IsValidScan(_, _, _, _)
IsValidScan(cs, layout, i, seen) ==
    IF i > Len(layout) THEN Cardinality(seen) = cs.Size
    ELSE LET char == layout[i] IN
         IF char = Null THEN FALSE
         ELSE IF ~Contains(cs, char) THEN FALSE
         ELSE IF char \in seen THEN FALSE
         ELSE IsValidScan(cs, layout, i + 1, seen \cup {char})

IsValid(cs, layout) ==
    IF Len(layout) # cs.Size THEN FALSE ELSE IsValidScan(cs, layout, 1, {})

----------------------------------------------------------------------------
(* Individual *)

NewIndividual(layout, cs, fitness, age) ==
    [Layout |-> layout, Charset |-> cs, Fitness |-> fitness, Age |-> age]

\* the zero value Individual{}
ZeroIndividual == NewIndividual(<<>>, NilCharset, 0, 0)

Clone(ind) == NewIndividual(ind.Layout, ind.Charset, ind.Fitness, ind.Age)

IndividualIsValid(ind) ==
    IF ind.Charset = NilCharset THEN FALSE ELSE IsValid(ind.Charset, ind.Layout)

\* every arrangement of the characters of cs: the outcomes of the Fisher-Yates shuffle
Shuffles(cs) ==
    {l \in [1..cs.Size -> Range(cs.Characters)] :
        \A i, j \in 1..cs.Size : i # j => l[i] # l[j]}

----------------------------------------------------------------------------
(* Order crossover.  Positions are 0-based as in the source; layout[i + 1] *)
(* is the source's Layout[i].  A read past the end of a slice panics.      *)

\* the used map after the segment of parent1 was copied
OXSegmentUsedNone(layout1, point1, point2) == {}

OXSegmentUsed(layout1, point1, point2) ==
    {layout1[i + 1] : i \in point1..point2}

\* the child after the segment of parent1 was copied
OXSegmentCopy(layout1, point1, point2) ==
    [i \in 1..Len(layout1) |->
        IF i - 1 >= point1 /\ i - 1 <= point2 THEN layout1[i] ELSE Null]

\* the loop "Fill remaining positions from parent2 in order" from parentIdx on
RECURSIVE OXFill(_, _, _, _, _, _)
OXFill(layout2, length, point1, point2, parentIdx, s) ==
    IF parentIdx >= length THEN s
    ELSE LET childIdx == IF s.childIdx >= point1 /\ s.childIdx <= point2
                         THEN point2 + 1 ELSE s.childIdx
         IN IF childIdx >= length THEN [s EXCEPT !.childIdx = childIdx]
            ELSE IF parentIdx >= Len(layout2) THEN [s EXCEPT !.panic = TRUE]
            ELSE LET char == layout2[parentIdx + 1] IN
                 IF char \notin s.used
                 THEN OXFill(layout2, length, point1, point2, parentIdx + 1,
                             [s EXCEPT !.child[childIdx + 1] = char,
                                       !.used = @ \cup {char},
                                       !.childIdx = childIdx + 1])
                 ELSE OXFill(layout2, length, point1, point2, parentIdx + 1,
                             [s EXCEPT !.childIdx = childIdx])

\* the loop "Handle wrap-around" from parentIdx on
RECURSIVE OXWrap(_, _, _, _, _)
OXWrap(layout2, length, point1, parentIdx, s) ==
    IF ~(parentIdx < length /\ s.childIdx < point1) THEN s
    ELSE IF parentIdx >= Len(layout2) THEN [s EXCEPT !.panic = TRUE]
    ELSE LET char == layout2[parentIdx + 1] IN
         IF char \notin s.used
         THEN OXWrap(layout2, length, point1, parentIdx + 1,
                     [s EXCEPT !.child[s.childIdx + 1] = char,
                               !.used = @ \cup {char},
                               !.childIdx = @ + 1])
         ELSE OXWrap(layout2, length, point1, parentIdx + 1, s)

\* orderCrossover with the two draws rand.IntN(length) given as r1 and r2
OrderCrossover(parent1, parent2, r1, r2) ==
    LET length == Len(parent1.Layout)
        point1 == Min(r1, r2)
        point2 == Max(r1, r2)
        s0 == [child |-> OXSegmentCopy(parent1.Layout, point1, point2),
               used |-> OXSegmentUsed(parent1.Layout, point1, point2),
               childIdx |-> 0,
               panic |-> FALSE]
        s1 == OXFill(parent2.Layout, length, point1, point2, 0, s0)
        s2 == IF ~s1.panic /\ s1.childIdx < point1
              THEN OXWrap(parent2.Layout, length, point1, 0, s1) ELSE s1
    IN [panic |-> s2.panic,
        child |-> NewIndividual(s2.child, parent1.Charset, 0, 0)]

----------------------------------------------------------------------------
(* Repair *)

\* the loop over child.Layout of ValidateChild from position i on:
\* the invalid positions (1-based here) and the characters still missing
RECURSIVE RepairScan(_, _, _, _)
RepairScan(cs, layout, i, s) ==
    IF i > Len(layout) THEN s
    ELSE LET char == layout[i] IN
         IF char = Null \/ ~Contains(cs, char) \/ char \in s.seen
         THEN RepairScan(cs, layout, i + 1,
                         [s EXCEPT !.invalidPositions = Append(@, i)])
         ELSE RepairScan(cs, layout, i + 1,
                         [s EXCEPT !.seen = @ \cup {char},
                                   !.missing = SelectSeq(@, LAMBDA c : c # char)])

\* the same loop without the test for a repeated character
RECURSIVE RepairScanNoDuplicates(_, _, _, _)
RepairScanNoDuplicates(cs, layout, i, s) ==
    IF i > Len(layout) THEN s
    ELSE LET char == layout[i] IN
         IF char = Null \/ ~Contains(cs, char)
         THEN RepairScanNoDuplicates(cs, layout, i + 1,
                         [s EXCEPT !.invalidPositions = Append(@, i)])
         ELSE RepairScanNoDuplicates(cs, layout, i + 1,
                         [s EXCEPT !.seen = @ \cup {char},
                                   !.missing = SelectSeq(@, LAMBDA c : c # char)])

RepairFindingsNoDuplicates(cs, layout) ==
    RepairScanNoDuplicates(cs, layout, 1,
        [seen |-> {}, missing |-> cs.Characters, invalidPositions |-> <<>>])

RepairFindings(cs, layout) ==
    RepairScan(cs, layout, 1,
        [seen |-> {}, missing |-> cs.Characters, invalidPositions |-> <<>>])

\* a fill that hands out the missing characters from the last one backwards
RepairFillBackwards(layout, invalidPositions, missing) ==
    [p \in 1..Len(layout) |->
        IF \E k \in 1..Len(invalidPositions) :
               invalidPositions[k] = p /\ k <= Len(missing)
        THEN missing[Len(missing) + 1
                        - CHOOSE k \in 1..Len(invalidPositions) : invalidPositions[k] = p]
        ELSE layout[p]]

\* the loop "Fix invalid positions by replacing with missing characters"
RepairFill(layout, invalidPositions, missing) ==
    [p \in 1..Len(layout) |->
        IF \E k \in 1..Len(invalidPositions) :
               invalidPositions[k] = p /\ k <= Len(missing)
        THEN missing[CHOOSE k \in 1..Len(invalidPositions) : invalidPositions[k] = p]
        ELSE layout[p]]

ValidateChild(child) ==
    LET cs == IF child.Charset = NilCharset THEN AlphabetOnly ELSE child.Charset
    IN IF IsValid(cs, child.Layout)
       THEN [child EXCEPT !.Charset = cs]
       ELSE LET f == RepairFindings(cs, child.Layout)
            IN [child EXCEPT !.Charset = cs,
                             !.Layout = RepairFill(child.Layout, f.invalidPositions, f.missing)]

----------------------------------------------------------------------------
(* FitnessEvaluator.  data names the frequency model the evaluator reads;  *)
(* the weighted sum of the thirteen components is abstracted to a score    *)
(* that depends on the layout: "first" grades a layout by the character on *)
(* its first key, "flat" gives every layout the same score, and "zero" is  *)
(* an evaluator that scores every layout 0.                                *)

DataKinds == {"first", "flat", "zero"}

WeightedSum(layout, data) ==
    CASE data = "first" -> IF Len(layout) > 0 THEN 33 * layout[1] ELSE 33
      [] data = "flat" -> 50
      [] OTHER -> 0

\* Evaluate without the validation of the layout
EvaluateUnchecked(layout, cs, data) ==
    IF cs = NilCharset THEN 0 ELSE WeightedSum(layout, data)

Evaluate(layout, cs, data) ==
    IF cs = NilCharset THEN 0
    ELSE IF ~IsValid(cs, layout) THEN 0
    ELSE WeightedSum(layout, data)

----------------------------------------------------------------------------
(* Initial population.  The position tables of the source cover the 26     *)
(* positions of the alphabet; here they cover positions 0..AlphabetSize-1. *)

\* largest population size of the model
MaxPopulation == 3

\* the population size from which diversity maintenance is on (200 in the
\* source), scaled to the population sizes of the model
LargePopulation == MaxPopulation

\* data.GetCharFreq(char): the empty frequency model counts nothing
GetCharFreq(data, char) == IF data = "zero" THEN 0 ELSE char

RowLength == Max(1, AlphabetSize \div 3)
topRow == [i \in 1..RowLength |-> i - 1]
homeRowPositions == [i \in 1..Min(RowLength, AlphabetSize - RowLength) |-> RowLength + i - 1]
bottomRow == [i \in 1..Max(0, AlphabetSize - 2 * RowLength) |-> 2 * RowLength + i - 1]
leftHand == [i \in 1..((AlphabetSize + 1) \div 2) |-> 2 * (i - 1)]
rightHand == [i \in 1..(AlphabetSize \div 2) |-> 2 * i - 1]
\* the vowels of the vowel-separation heuristic
vowels == {1}
\* the QWERTY order of the alphabet
qwerty == [i \in 1..AlphabetSize |-> AlphabetSize + 1 - i]

\* the inner loop of the frequency sort: j from jj on, for a fixed i
RECURSIVE SortInner(_, _, _, _)
SortInner(data, f, i, jj) ==
    IF jj > Len(f) THEN f
    ELSE IF GetCharFreq(data, f[jj]) > GetCharFreq(data, f[i])
         THEN SortInner(data, [f EXCEPT ![i] = f[jj], ![jj] = f[i]], i, jj + 1)
         ELSE SortInner(data, f, i, jj + 1)

\* "Sort by frequency (descending)": the outer loop from i on
RECURSIVE SortByFrequency(_, _, _)
SortByFrequency(data, f, i) ==
    IF i >= Len(f) THEN f
    ELSE SortByFrequency(data, SortInner(data, f, i, i + 1), i + 1)

\* the layout with the k-th empty position (in order) taking fill[k], while fill lasts
FillEmpty(layout, fill) ==
    [p \in 1..Len(layout) |->
        IF layout[p] # Null THEN layout[p]
        ELSE LET k == Cardinality({q \in 1..p : layout[q] = Null})
             IN IF k <= Len(fill) THEN fill[k] ELSE Null]

\* every order of the elements of a sequence: the outcomes of shuffling it
ShufflesOf(seq) ==
    {[i \in 1..Len(seq) |-> seq[pi[i]]] :
        pi \in {f \in [1..Len(seq) -> 1..Len(seq)] :
                   \A a, b \in 1..Len(seq) : a # b => f[a] # f[b]}}

\* the layouts createFrequencyBasedLayout can return
createFrequencyBasedLayout(cs, data) ==
    IF data = "nil" THEN Shuffles(cs)
    ELSE LET frequencies == SortByFrequency(data, cs.Characters, 1)
             placed == {i \in 1..Len(homeRowPositions) :
                           i - 1 < Len(frequencies) /\ homeRowPositions[i] < cs.Size}
             freqIndex == Cardinality(placed)
             home == [p \in 1..cs.Size |->
                         IF \E i \in placed : homeRowPositions[i] = p - 1
                         THEN frequencies[Cardinality({k \in placed :
                                  k <= CHOOSE i \in placed : homeRowPositions[i] = p - 1})]
                         ELSE Null]
             remainingChars == SubSeq(frequencies, freqIndex + 1, Len(frequencies))
         IN {FillEmpty(home, r) : r \in ShufflesOf(remainingChars)}

\* "Alternate placing frequent characters between hands" from the i-th
\* frequency on (i is 0-based as in the source)
RECURSIVE HandPlace(_, _, _)
HandPlace(frequencies, i, s) ==
    IF i >= Len(frequencies) THEN s
    ELSE LET char == frequencies[i + 1] IN
         IF i % 2 = 0 /\ s.leftIndex < Len(leftHand)
         THEN HandPlace(frequencies, i + 1,
                  [s EXCEPT !.result[leftHand[s.leftIndex + 1] + 1] = char,
                            !.leftIndex = @ + 1])
         ELSE IF s.rightIndex < Len(rightHand)
         THEN HandPlace(frequencies, i + 1,
                  [s EXCEPT !.result[rightHand[s.rightIndex + 1] + 1] = char,
                            !.rightIndex = @ + 1])
         ELSE IF s.leftIndex < Len(leftHand)
         THEN HandPlace(frequencies, i + 1,
                  [s EXCEPT !.result[leftHand[s.leftIndex + 1] + 1] = char,
                            !.leftIndex = @ + 1])
         ELSE HandPlace(frequencies, i + 1, s)

createHandBalancedLayout(cs, data) ==
    IF data = "nil" THEN Shuffles(cs)
    ELSE LET frequencies == SortByFrequency(data, cs.Characters, 1)
         IN {HandPlace(frequencies, 0,
                 [result |-> [p \in 1..cs.Size |-> Null],
                  leftIndex |-> 0, rightIndex |-> 0]).result}

\* the result after the positions of one row took the next characters of chars
RowFill(layout, row, chars, charIndex) ==
    [p \in 1..Len(layout) |->
        IF \E k \in 1..Len(row) : row[k] = p - 1 /\ charIndex + k <= Len(chars)
        THEN chars[charIndex + (CHOOSE k \in 1..Len(row) : row[k] = p - 1)]
        ELSE layout[p]]

\* the rows hold positions below the layout's length in the model, so that each
\* row takes Len(row) characters while characters last
createRowBalancedLayout(cs) ==
    {LET r0 == [p \in 1..cs.Size |-> Null]
         r1 == RowFill(r0, homeRowPositions, chars, 0)
         c1 == Min(Len(chars), Len(homeRowPositions))
         r2 == RowFill(r1, topRow, chars, c1)
         c2 == Min(Len(chars), c1 + Len(topRow))
     IN RowFill(r2, bottomRow, chars, c2) : chars \in Shuffles(cs)}

\* "Try to separate vowels": the loop over result from position i (0-based) on
RECURSIVE SeparateVowels(_, _)
SeparateVowels(layout, i) ==
    IF i >= Len(layout) THEN layout
    ELSE IF layout[i + 1] \in vowels
         THEN LET swapWith == (i + Len(layout) \div 2) % Len(layout)
              IN SeparateVowels([layout EXCEPT ![i + 1] = layout[swapWith + 1],
                                               ![swapWith + 1] = layout[i + 1]], i + 1)
         ELSE SeparateVowels(layout, i + 1)

createPatternBasedLayout(cs, data) ==
    IF data = "nil" THEN Shuffles(cs)
    ELSE {SeparateVowels(chars, 0) : chars \in Shuffles(cs)}

\* "find next available": the first empty position from targetPos on, wrapping
RECURSIVE NextAvailable(_, _)
NextAvailable(layout, targetPos) ==
    IF layout[targetPos + 1] = Null THEN targetPos
    ELSE NextAvailable(layout, (targetPos + 1) % Len(layout))

\* "Place characters as far as possible from their QWERTY positions" from i on
RECURSIVE AntiPlace(_, _, _)
AntiPlace(cs, i, s) ==
    IF i >= Len(qwerty) \/ i >= Len(s.result) THEN s
    ELSE LET qwertyChar == qwerty[i + 1] IN
         IF Contains(cs, qwertyChar) /\ qwertyChar \notin s.used
         THEN LET targetPos == NextAvailable(s.result, (i + Len(s.result) \div 2) % Len(s.result))
              IN AntiPlace(cs, i + 1,
                     [s EXCEPT !.result[targetPos + 1] = qwertyChar,
                               !.used = @ \cup {qwertyChar}])
         ELSE AntiPlace(cs, i + 1, s)

createAntiQWERTYLayout(cs) ==
    LET s == AntiPlace(cs, 0, [result |-> [p \in 1..cs.Size |-> Null], used |-> {}])
    IN {FillEmpty(s.result, SelectSeq(cs.Characters, LAMBDA c : c \notin s.used))}

\* the individuals NewRandomIndividualWithCharset can return
NewRandomIndividualWithCharset(cs) ==
    LET c == IF cs = NilCharset THEN FullKeyboardCharset ELSE cs
    IN {NewIndividual(l, c, 0, 0) : l \in Shuffles(c)}

\* the individuals NewRandomIndividual can return
NewRandomIndividual == NewRandomIndividualWithCharset(FullKeyboardCharset)

strategies == <<"FrequencyBased", "HandBalance", "RowBalance", "CommonPatternsFirst", "AntiQWERTY">>

\* the individuals NewRandomIndividualWithStrategy can return
NewRandomIndividualWithStrategy(cs, strategy, data) ==
    LET c == IF cs = NilCharset THEN FullKeyboardCharset ELSE cs
        layouts == CASE strategy = "FrequencyBased" -> createFrequencyBasedLayout(c, data)
                     [] strategy = "HandBalance" -> createHandBalancedLayout(c, data)
                     [] strategy = "RowBalance" -> createRowBalancedLayout(c)
                     [] strategy = "CommonPatternsFirst" -> createPatternBasedLayout(c, data)
                     [] strategy = "AntiQWERTY" -> createAntiQWERTYLayout(c)
                     [] OTHER -> Shuffles(c)
    IN {NewIndividual(l, c, 0, 0) : l \in layouts}

\* int(float64(size) * diverseRatio)
DiverseCount(size) ==
    IF size >= 500 THEN (size * 3) \div 10
    ELSE IF size >= 200 THEN (size * 4) \div 10
    ELSE (size * 5) \div 10

\* the individuals CreateDiversePopulation can put at index i (0-based)
DiverseMember(i, size, data, cs) ==
    IF i < DiverseCount(size)
    THEN LET strategy == strategies[(i % Len(strategies)) + 1]
         IN IF data # "nil" /\ strategy \in {"FrequencyBased", "HandBalance", "CommonPatternsFirst"}
            THEN NewRandomIndividualWithStrategy(cs, strategy, data)
            ELSE NewRandomIndividualWithStrategy(cs, strategy, "nil")
    ELSE NewRandomIndividualWithCharset(cs)

\* the ways CreateDiversePopulation can fill population[i..] (0-based)
RECURSIVE DiverseFrom(_, _, _, _)
DiverseFrom(i, size, data, cs) ==
    IF i >= size THEN {<<>>}
    ELSE {<<m>> \o rest : m \in DiverseMember(i, size, data, cs),
                          rest \in DiverseFrom(i + 1, size, data, cs)}

\* the populations CreateDiversePopulation can return
CreateDiversePopulation(size, data, cs) == DiverseFrom(0, size, data, cs)

\* ParallelEvaluator.EvaluatePopulation run to its end without cancellation:
\* every slot's Fitness is the evaluator's value for its layout
EvaluatePopulation(pop, data) ==
    [i \in 1..Len(pop) |->
        [pop[i] EXCEPT !.Fitness = Evaluate(pop[i].Layout, pop[i].Charset, data)]]

----------------------------------------------------------------------------
(* Selection, mutation and population diversity *)

\* NewParallelEvolver: "Enable diversity maintenance for large populations"
UseDiversityMaintenance(cfg) == cfg.PopulationSize >= LargePopulation

\* the tournament size NewParallelEvolver gives the selector
SelectorTournamentSize(cfg) ==
    IF UseDiversityMaintenance(cfg)
    THEN Max(2, Min(4, cfg.TournamentSize))
    ELSE cfg.TournamentSize

\* the scan in which a later member wins a tie
RECURSIVE TournamentBestLast(_, _, _)
TournamentBestLast(tournament, j, best) ==
    IF j > Len(tournament) THEN best
    ELSE TournamentBestLast(tournament, j + 1,
             IF tournament[j].Fitness >= best.Fitness THEN tournament[j] ELSE best)

\* "Find best in tournament": the scan of tournament[j..] with the best so far
RECURSIVE TournamentBest(_, _, _)
TournamentBest(tournament, j, best) ==
    IF j > Len(tournament) THEN best
    ELSE TournamentBest(tournament, j + 1,
             IF tournament[j].Fitness > best.Fitness THEN tournament[j] ELSE best)

\* the individuals one tournament over the population can select
tournamentSelect(pop, cfg) ==
    {Clone(TournamentBest(t, 2, t[1])) :
        t \in [1..SelectorTournamentSize(cfg) -> Range(pop)]}

\* the pairs SelectParents can return
SelectParents(pop, cfg) == tournamentSelect(pop, cfg) \X tournamentSelect(pop, cfg)

\* swapMutation at the two drawn positions (0-based)
swapMutation(ind, pos1, pos2) ==
    [ind EXCEPT !.Layout = [ind.Layout EXCEPT ![pos1 + 1] = ind.Layout[pos2 + 1],
                                              ![pos2 + 1] = ind.Layout[pos1 + 1]]]

\* the individuals Mutator.Apply (and AdaptiveMutator.Apply) can return: the
\* individual itself, or a clone with two positions swapped and Fitness reset
MutatorApply(ind) ==
    {ind} \cup
    {[swapMutation(Clone(ind), pos1, pos2) EXCEPT !.Fitness = 0] :
        <<pos1, pos2>> \in {pq \in (0..(Len(ind.Layout) - 1)) \X (0..(Len(ind.Layout) - 1)) :
                               pq[1] # pq[2] \/ Len(ind.Layout) <= 1}}

\* calculateLayoutDistance reads ind2.Layout at every index of ind1.Layout
DistancePanics(ind1, ind2) == Len(ind2.Layout) < Len(ind1.Layout)

\* the number of positions at which the two layouts differ
Differences(ind1, ind2) ==
    Cardinality({i \in 1..Len(ind1.Layout) : ind1.Layout[i] # ind2.Layout[i]})

\* the pairs CalculatePopulationDiversity compares
ComparedPairs(pop) == {ij \in (1..Len(pop)) \X (1..Len(pop)) : ij[1] < ij[2]}

\* a common multiple of the layout lengths, to keep the distances integers
DistanceScale == AlphabetSize * FullSize

RECURSIVE TotalDistance(_, _)
TotalDistance(pop, pairs) ==
    IF pairs = {} THEN 0
    ELSE LET ij == CHOOSE x \in pairs : TRUE
         IN (Differences(pop[ij[1]], pop[ij[2]]) * DistanceScale) \div Len(pop[ij[1]].Layout)
                + TotalDistance(pop, pairs \ {ij})

\* CalculatePopulationDiversity: "panic" when a distance reads past a layout,
\* "nan" when a distance is 0/0 (an empty first layout), "low" when the
\* diversity is below 0.1, else "high"
CalculatePopulationDiversity(pop) ==
    IF Len(pop) < 2 THEN "low"
    ELSE IF \E ij \in ComparedPairs(pop) : DistancePanics(pop[ij[1]], pop[ij[2]]) THEN "panic"
    ELSE IF \E ij \in ComparedPairs(pop) : Len(pop[ij[1]].Layout) = 0 THEN "nan"
    ELSE IF 10 * TotalDistance(pop, ComparedPairs(pop))
               < Cardinality(ComparedPairs(pop)) * DistanceScale THEN "low"
    ELSE "high"

----------------------------------------------------------------------------
(* ParallelEvolver.Evolve *)

\* what one offspringWorker job can produce: the crossover (or the clone of a
\* parent), the mutation and ValidateChild; rand.IntN(0) panics
OffspringOf(parent1, parent2) ==
    LET crossed == IF Len(parent1.Layout) = 0
                   THEN {[panic |-> TRUE, child |-> ZeroIndividual]}
                   ELSE {OrderCrossover(parent1, parent2, r1, r2) :
                            r1 \in 0..(Len(parent1.Layout) - 1),
                            r2 \in 0..(Len(parent1.Layout) - 1)}
        cloned == {[panic |-> FALSE, child |-> Clone(parent1)],
                   [panic |-> FALSE, child |-> Clone(parent2)]}
    IN UNION {IF c.panic THEN {c}
              ELSE IF Len(c.child.Layout) = 0
                   THEN {[panic |-> FALSE, child |-> ValidateChild(c.child)],
                         [panic |-> TRUE, child |-> ZeroIndividual]}
                   ELSE {[panic |-> FALSE, child |-> ValidateChild(m)] : m \in MutatorApply(c.child)}
              : c \in crossed \cup cloned}

\* the outcomes of one job over the population
offspringWorker(pop, cfg) ==
    UNION {OffspringOf(pp[1], pp[2]) : pp \in SelectParents(pop, cfg)}

\* adaptiveElitismCount of Evolve
AdaptiveElitismCount(cfg) ==
    IF UseDiversityMaintenance(cfg)
    THEN LET minElitism == Max(1, cfg.PopulationSize \div 100)
             maxElitism == Max(3, cfg.PopulationSize \div 33)
         IN Max(minElitism, Min(maxElitism, cfg.ElitismCount))
    ELSE cfg.ElitismCount

\* "replace some elites with evaluated random individuals" when the diversity is
\* critically low
InjectsRandom(pop, cfg) ==
    UseDiversityMaintenance(cfg) /\ CalculatePopulationDiversity(pop) = "low"

\* the number of selected elites Evolve keeps
EliteCount(pop, cfg) ==
    IF InjectsRandom(pop, cfg)
    THEN Max(1, (AdaptiveElitismCount(cfg) * 2) \div 3)
    ELSE AdaptiveElitismCount(cfg)

\* the evaluated random individuals Evolve can inject
InjectedIndividuals(data) ==
    {[ind EXCEPT !.Fitness = Evaluate(ind.Layout, ind.Charset, data)] : ind \in NewRandomIndividual}

\* generateOffspring: the evaluated offspring a job can leave in its slot; with
\* no worker started no slot is written and every slot keeps the zero value
OffspringSlot(pop, cfg) ==
    IF cfg.ParallelWorkers <= 0
    THEN {[ZeroIndividual EXCEPT !.Fitness = Evaluate(<<>>, NilCharset, cfg.data)]}
    ELSE {[o.child EXCEPT !.Fitness = Evaluate(o.child.Layout, o.child.Charset, cfg.data)] :
             o \in {x \in offspringWorker(pop, cfg) : ~x.panic}}

\* Evolve panics: in the diversity computation, or in a worker's job
EvolvePanics(pop, cfg) ==
    LET evaluated == EvaluatePopulation(pop, cfg.data)
    IN \/ UseDiversityMaintenance(cfg) /\ CalculatePopulationDiversity(evaluated) = "panic"
       \/ /\ cfg.PopulationSize - AdaptiveElitismCount(cfg) > 0
          /\ cfg.ParallelWorkers > 0
          /\ \E x \in offspringWorker(evaluated, cfg) : x.panic

\* an Evolve that cuts the elites on low diversity and adds no random individual
EvolveWithoutInjection(pop, cfg) ==
    LET evaluated == EvaluatePopulation(pop, cfg.data)
        remaining == cfg.PopulationSize - AdaptiveElitismCount(cfg)
    IN {elites \o children :
           elites \in [1..EliteCount(evaluated, cfg) -> tournamentSelect(evaluated, cfg)],
           children \in [1..remaining -> OffspringSlot(evaluated, cfg)]}

\* the populations Evolve can return: the population is evaluated in place, then
\* the new one is the kept elites, the injected individuals and the offspring
Evolve(pop, cfg) ==
    LET evaluated == EvaluatePopulation(pop, cfg.data)
        a == AdaptiveElitismCount(cfg)
        eliteCount == EliteCount(evaluated, cfg)
        remaining == cfg.PopulationSize - a
        selected == tournamentSelect(evaluated, cfg)
        injected == InjectedIndividuals(cfg.data)
        offspring == OffspringSlot(evaluated, cfg)
    IN {elites \o randoms \o children :
           elites \in [1..eliteCount -> selected],
           randoms \in [1..(a - eliteCount) -> injected],
           children \in [1..remaining -> offspring]}

\* how an individual handed to the evaluator stands to the engine's character set
HandedKind(ind, cs) ==
    IF ind.Charset = NilCharset THEN "nil charset"
    ELSE IF ind.Charset # cs THEN "other charset"
    ELSE IF IsValid(cs, ind.Layout) THEN "valid"
    ELSE "invalid"

\* the kinds of the individuals one call of Evolve hands to the evaluator: the
\* population, the injected individuals and the offspring
EvolveHands(pop, new, cfg, cs) ==
    {HandedKind(pop[i], cs) : i \in 1..Len(pop)}
        \cup {HandedKind(new[i], cs) : i \in (EliteCount(EvaluatePopulation(pop, cfg.data), cfg) + 1)..Len(new)}

----------------------------------------------------------------------------
(* ParallelGA.Run *)

\* largest MaxGenerations of the model
MaxGen == 2
\* largest ConvergenceStops of the model
MaxStops == 2
\* the largest int, the loop limit of an unlimited run
MaxInt == 16
\* the larger of the two convergence tolerances of the model, in hundredths
WideTolerance == 40
\* "Near-perfect fitness": 0.99
PerfectFitness == 99

Abs(x) == IF x < 0 THEN -x ELSE x

\* the configurations and data Run is started with; ParallelWorkers 0 is the
\* driver's default ("auto-detect")
Configs ==
    {cfg \in [PopulationSize : 2..MaxPopulation, ElitismCount : 0..(MaxPopulation - 1),
               TournamentSize : {2}, MaxGenerations : 0..MaxGen,
               ConvergenceStops : 0..MaxStops, ConvergenceTolerance : {0, WideTolerance},
               ParallelWorkers : {0, 2}, data : {"first", "zero"}] :
        cfg.ElitismCount < cfg.PopulationSize}

\* "Determine loop limit"
maxGens(cfg) ==
    IF cfg.MaxGenerations = 0 /\ cfg.ConvergenceStops > 0 THEN MaxInt ELSE cfg.MaxGenerations

\* the best of the passes that forget the best of the earlier generations
FindBestOfGeneration(pop, i, gen, s) ==
    [bestIndividual |-> Clone(pop[Len(pop)]), bestFitness |-> pop[Len(pop)].Fitness,
     bestInitialized |-> TRUE]

\* the scan that leaves the age of a better individual as the clone has it
RECURSIVE FindBestKeepsAge(_, _, _, _)
FindBestKeepsAge(pop, i, gen, s) ==
    IF i > Len(pop) THEN s
    ELSE IF ~s.bestInitialized \/ pop[i].Fitness > s.bestFitness
         THEN FindBestKeepsAge(pop, i + 1, gen,
                  [bestIndividual |-> Clone(pop[i]), bestFitness |-> pop[i].Fitness,
                   bestInitialized |-> TRUE])
         ELSE FindBestKeepsAge(pop, i + 1, gen, s)

\* "Find best individual in current generation": the scan of population[i..]
RECURSIVE FindBest(_, _, _, _)
FindBest(pop, i, gen, s) ==
    IF i > Len(pop) THEN s
    ELSE IF ~s.bestInitialized
         THEN FindBest(pop, i + 1, gen,
                  [bestIndividual |-> Clone(pop[i]), bestFitness |-> pop[i].Fitness,
                   bestInitialized |-> TRUE])
         ELSE IF pop[i].Fitness > s.bestFitness
              THEN FindBest(pop, i + 1, gen,
                       [bestIndividual |-> [Clone(pop[i]) EXCEPT !.Age = gen],
                        bestFitness |-> pop[i].Fitness, bestInitialized |-> TRUE])
              ELSE FindBest(pop, i + 1, gen, s)

\* the convergence block compares only when ConvergenceStops > 0 and the pass
\* is "not the first generation" (lastBestFitness >= 0)
ConvergenceTracked(cfg, last) == cfg.ConvergenceStops > 0 /\ last >= 0

\* the comparison that never finds the fitness unchanged
FitnessNeverStagnates(cfg, last, fitness) == FALSE

\* fitnessChange <= ConvergenceTolerance
FitnessStagnates(cfg, last, fitness) ==
    ConvergenceTracked(cfg, last) /\ Abs(fitness - last) <= cfg.ConvergenceTolerance

\* the counter that is not reset when the fitness changes
CountAfterNoReset(cfg, last, fitness, count) ==
    IF FitnessStagnates(cfg, last, fitness) THEN count + 1 ELSE count

\* convergenceCount after the convergence block
CountAfter(cfg, last, fitness, count) ==
    IF ~ConvergenceTracked(cfg, last) THEN count
    ELSE IF FitnessStagnates(cfg, last, fitness) THEN count + 1
    ELSE 0

\* the callbacks of a pass that make no final call on convergence
CallbacksWithoutFinal(stop, gen, best) ==
    IF stop = "converged" THEN <<>> ELSE <<[generation |-> gen, best |-> best]>>

\* the calls of the callback one pass makes, in order: the "Final callback" before
\* the break on convergence, else the call at the end of the pass
Callbacks(stop, gen, best) ==
    IF stop = "converged"
    THEN <<[generation |-> gen, best |-> best]>>
    ELSE <<[generation |-> gen, best |-> best]>>

\* what one pass of the loop body computes from the population Evolve returned:
\* the best so far, the convergence tracking and why the loop ends, if it does
LoopBody(new, gen, cfg, best, last, count) ==
    LET s == FindBest(new, 1, gen, best)
        count1 == CountAfter(cfg, last, s.bestFitness, count)
        converged == /\ FitnessStagnates(cfg, last, s.bestFitness)
                     /\ count1 >= cfg.ConvergenceStops
    IN [best |-> s,
        convergenceCount |-> count1,
        lastBestFitness |-> IF cfg.ConvergenceStops > 0 /\ ~converged THEN s.bestFitness ELSE last,
        stop |-> IF converged THEN "converged"
                 ELSE IF s.bestFitness >= PerfectFitness THEN "perfect"
                 ELSE "none"]

\* the locals of Run before its first statement
RunNew ==
    /\ opIn = [op |-> "run"]
    /\ opOut = [op |-> "none"]
    /\ pc = "new"
    /\ population = <<>>
    /\ bestIndividual = ZeroIndividual
    /\ bestFitness = -100
    /\ bestInitialized = FALSE
    /\ lastBestFitness = -100
    /\ convergenceCount = 0
    /\ generation = 0
    /\ observed = <<>>
    /\ cancelled = FALSE
    /\ result = ZeroIndividual
    /\ err = "nil"
    /\ stopReason = "none"
    /\ handed = {}

Init ==
    /\ config \in Configs
    /\ charset \in Charsets
    \* the large populations are run over the alphabet only, to bound the model
    /\ config.PopulationSize < LargePopulation \/ charset = AlphabetOnly
    /\ RunNew

\* Run up to the loop: the initial population is created and evaluated
Start ==
    /\ pc = "new"
    /\ ~cancelled
    /\ \E pop \in CreateDiversePopulation(config.PopulationSize, config.data, charset) :
          /\ population' = EvaluatePopulation(pop, config.data)
          /\ handed' = {HandedKind(pop[i], charset) : i \in 1..Len(pop)}
    /\ pc' = "loop"
    /\ UNCHANGED <<opVars, config, charset, bestIndividual, bestFitness, bestInitialized,
                   lastBestFitness, convergenceCount, generation, observed, cancelled,
                   result, err, stopReason>>

\* the initial evaluation fails on the cancelled context
StartCancelled ==
    /\ pc = "new"
    /\ cancelled
    /\ pc' = "done"
    /\ result' = ZeroIndividual
    /\ err' = "canceled"
    /\ stopReason' = "cancelled"
    /\ UNCHANGED <<opVars, config, charset, population, bestIndividual, bestFitness,
                   bestInitialized, lastBestFitness, convergenceCount, generation,
                   observed, handed, cancelled>>

\* one generation: Evolve, the best so far, the convergence tracking, the callback
\* and the two early stops
Generation ==
    /\ pc = "loop"
    /\ generation < maxGens(config)
    /\ ~cancelled
    /\ \E new \in Evolve(population, config) :
          LET b == LoopBody(new, generation, config,
                            [bestIndividual |-> bestIndividual, bestFitness |-> bestFitness,
                             bestInitialized |-> bestInitialized],
                            lastBestFitness, convergenceCount)
          IN /\ population' = new
             /\ handed' = EvolveHands(population, new, config, charset)
             /\ bestIndividual' = b.best.bestIndividual
             /\ bestFitness' = b.best.bestFitness
             /\ bestInitialized' = b.best.bestInitialized
             /\ convergenceCount' = b.convergenceCount
             /\ lastBestFitness' = b.lastBestFitness
             /\ observed' = observed \o Callbacks(b.stop, generation, b.best.bestIndividual)
             /\ IF b.stop = "none"
                THEN /\ generation' = generation + 1
                     /\ UNCHANGED <<pc, result, err, stopReason>>
                ELSE /\ pc' = "done"
                     /\ result' = b.best.bestIndividual
                     /\ err' = "nil"
                     /\ stopReason' = b.stop
                     /\ UNCHANGED generation
    /\ UNCHANGED <<opVars, config, charset, cancelled>>

\* a panic in Evolve (an index out of range, rand.IntN(0)) ends the process
GenerationPanics ==
    /\ pc = "loop"
    /\ generation < maxGens(config)
    /\ ~cancelled
    /\ EvolvePanics(population, config)
    /\ pc' = "panic"
    /\ stopReason' = "panic"
    /\ UNCHANGED <<opVars, config, charset, population, bestIndividual, bestFitness,
                   bestInitialized, lastBestFitness, convergenceCount, generation,
                   observed, handed, cancelled, result, err>>

\* the abort that reports success
AbortWithoutError ==
    /\ pc = "loop"
    /\ generation < maxGens(config)
    /\ cancelled
    /\ pc' = "done"
    /\ result' = bestIndividual
    /\ err' = "nil"
    /\ stopReason' = "cancelled"
    /\ UNCHANGED <<opVars, config, charset, population, bestIndividual, bestFitness,
                   bestInitialized, lastBestFitness, convergenceCount, generation,
                   observed, handed, cancelled>>

\* the context is found cancelled, at the top of the loop or inside Evolve
Abort ==
    /\ pc = "loop"
    /\ generation < maxGens(config)
    /\ cancelled
    /\ pc' = "done"
    /\ result' = bestIndividual
    /\ err' = "canceled"
    /\ stopReason' = "cancelled"
    /\ UNCHANGED <<opVars, config, charset, population, bestIndividual, bestFitness,
                   bestInitialized, lastBestFitness, convergenceCount, generation,
                   observed, handed, cancelled>>

\* the loop reaches its limit
Finish ==
    /\ pc = "loop"
    /\ generation >= maxGens(config)
    /\ pc' = "done"
    /\ result' = bestIndividual
    /\ err' = "nil"
    /\ stopReason' = "limit"
    /\ UNCHANGED <<opVars, config, charset, population, bestIndividual, bestFitness,
                   bestInitialized, lastBestFitness, convergenceCount, generation,
                   observed, handed, cancelled>>

\* the caller cancels the context
Cancel ==
    /\ pc \in {"new", "loop"}
    /\ ~cancelled
    /\ cancelled' = TRUE
    /\ UNCHANGED <<opVars, pc, config, charset, population, bestIndividual, bestFitness,
                   bestInitialized, lastBestFitness, convergenceCount, generation,
                   observed, handed, result, err, stopReason>>

Next ==
    \/ Start
    \/ StartCancelled
    \/ Generation
    \/ GenerationPanics
    \/ Abort
    \/ Finish
    \/ Cancel

Spec == Init /\ [][Next]_vars

\* the unlimited runs: convergence enabled and MaxGenerations = 0; they are run
\* over the alphabet with the populations below the large size, where no step of
\* Evolve panics
InitUnlimited ==
    /\ Init
    /\ config.MaxGenerations = 0
    /\ config.ConvergenceStops > 0
    /\ config.PopulationSize < LargePopulation
    /\ charset = AlphabetOnly

\* the steps of a run that is never cancelled; the loop limit of an unlimited run
\* is the largest int, which Finish would need generation to reach
NextUncancelled ==
    \/ Start
    \/ Generation

\* the goroutine that executes Run keeps running: Evolve returns once its
\* workers have drained the job channels
SpecUnlimited == InitUnlimited /\ [][NextUncancelled]_vars /\ WF_vars(NextUncancelled)

\* the runs in which every layout evaluates to 0.0, under a configuration with a
\* limit of generations or with convergence, never cancelled
InitZero ==
    /\ Init
    /\ config.data = "zero"
    /\ config.MaxGenerations > 0 \/ config.ConvergenceStops > 0

NextZero ==
    \/ Start
    \/ Generation
    \/ GenerationPanics
    \/ Finish

SpecZero == InitZero /\ [][NextZero]_vars

\* the fitness history the driver's callback collects: best.Fitness of each call
FitnessHistory(obs) == [i \in 1..Len(obs) |-> obs[i].best.Fitness]

\* Runner.runFromReader after ga.Run has returned: a failed Run gives
\* (nil, nil, wrapped error), else (&bestIndividual, fitnessHistory, nil); a
\* pointer is a sequence of at most one value
runFromReader ==
    /\ pc = "done"
    /\ opOut.op = "none"
    /\ opOut' = IF err # "nil"
                THEN [op |-> "runFromReader", best |-> <<>>, history |-> <<>>, err |-> err]
                ELSE [op |-> "runFromReader", best |-> <<result>>,
                      history |-> FitnessHistory(observed), err |-> "nil"]
    /\ UNCHANGED <<opIn, runVars>>

\* runOptimization after RunFromText has returned: the Result handed to the page
runOptimization ==
    /\ opOut.op = "runFromReader"
    /\ opOut' = IF opOut.err # "nil"
                THEN [op |-> "runOptimization", Success |-> FALSE,
                      Error |-> IF cancelled THEN "Optimization was canceled"
                                ELSE "Optimization failed",
                      BestFitness |-> 0, Layout |-> <<>>, FitnessHistory |-> <<>>]
                ELSE [op |-> "runOptimization", Success |-> TRUE, Error |-> "",
                      BestFitness |-> opOut.best[1].Fitness,
                      Layout |-> opOut.best[1].Layout,
                      FitnessHistory |-> IF Len(opOut.history) > 0 THEN opOut.history
                                         ELSE FitnessHistory(observed)]
    /\ UNCHANGED <<opIn, runVars>>

\* the driver runs the engine over the full keyboard character set
InitRunner ==
    /\ Init
    /\ charset = FullKeyboardCharset

\* the steps of Run and of the driver; no step of Evolve panics in these runs
NextRunner ==
    \/ Start
    \/ StartCancelled
    \/ Generation
    \/ Abort
    \/ Finish
    \/ Cancel
    \/ runFromReader
    \/ runOptimization

SpecRunner == InitRunner /\ [][NextRunner]_vars

\* largest population size of the runs that only create their population
MaxCreate == 6

\* runs of no generation over populations large enough for CreateDiversePopulation
\* to use its heuristics beyond the first
CreateConfigs ==
    [PopulationSize : (MaxPopulation + 1)..MaxCreate, ElitismCount : {1},
     TournamentSize : {2}, MaxGenerations : {0}, ConvergenceStops : {0},
     ConvergenceTolerance : {0}, ParallelWorkers : {2}, data : {"first", "zero"}]

InitCreate ==
    /\ config \in CreateConfigs
    /\ charset \in Charsets
    /\ RunNew

NextCreate ==
    \/ Start
    \/ Finish

SpecCreate == InitCreate /\ [][NextCreate]_vars

----------------------------------------------------------------------------
(* The operators applied to inputs drawn from bounded sets *)

\* every sequence of length n over the characters 0..top: with top one past the
\* size of a character set, null and a character outside the set are included
AnyLayouts(n, top) == [1..n -> 0..top]

\* the engine is not running while a single operator is studied
RunIdle ==
    /\ pc = "idle"
    /\ config = [PopulationSize |-> 0]
    /\ charset = NilCharset
    /\ population = <<>>
    /\ bestIndividual = ZeroIndividual
    /\ bestFitness = -100
    /\ bestInitialized = FALSE
    /\ lastBestFitness = -100
    /\ convergenceCount = 0
    /\ generation = 0
    /\ observed = <<>>
    /\ cancelled = FALSE
    /\ result = ZeroIndividual
    /\ err = "nil"
    /\ stopReason = "none"
    /\ handed = {}

\* the calls under study: order crossover of two valid parents over one set,
\* ValidateChild on any layout whose length is the size of its character set,
\* Evaluate on any layout of any length up to one past the full size
\* the calls of orderCrossover with parent1 among firsts and parent2 any
\* arrangement of the same set
OrderCrossoverCallsOver(cs, firsts) ==
    {[op |-> "orderCrossover", parent1 |-> NewIndividual(l1, cs, 0, 0),
      parent2 |-> NewIndividual(l2, cs, 0, 0), r1 |-> r1, r2 |-> r2] :
        l1 \in firsts, l2 \in Shuffles(cs),
        r1 \in 0..(cs.Size - 1), r2 \in 0..(cs.Size - 1)}

\* over the largest set parent1 is the set in its own order: the operator treats
\* the characters alike, so that every other pair is one of these renamed
OrderCrossoverCalls ==
    OrderCrossoverCallsOver(AlphabetOnly, Shuffles(AlphabetOnly))
        \cup OrderCrossoverCallsOver(FullKeyboardCharset, Shuffles(FullKeyboardCharset))
        \cup OrderCrossoverCallsOver(TestCharset, {TestCharset.Characters})

ValidateChildCallsOver(cs, n) ==
    {[op |-> "validateChild", child |-> NewIndividual(layout, cs, 0, 0)] :
        layout \in AnyLayouts(n, n + 1)}

ValidateChildCalls ==
    ValidateChildCallsOver(AlphabetOnly, AlphabetSize)
        \cup ValidateChildCallsOver(NilCharset, AlphabetSize)
        \cup ValidateChildCallsOver(FullKeyboardCharset, FullSize)
        \cup ValidateChildCallsOver(TestCharset, CustomSize)

\* the calls of Evaluate on the layouts of length n
EvaluateCallsOfLength(n) ==
    {[op |-> "evaluate", layout |-> layout, charset |-> cs, data |-> data] :
        cs \in Charsets \cup {NilCharset}, data \in DataKinds,
        layout \in AnyLayouts(n, FullSize + 1)}

OpsInit ==
    /\ \/ opIn \in OrderCrossoverCalls
       \/ opIn \in ValidateChildCalls
       \/ \E n \in 0..(FullSize + 1) : opIn \in EvaluateCallsOfLength(n)
    /\ opOut = [op |-> "none"]
    /\ RunIdle

ApplyOrderCrossover ==
    /\ opIn.op = "orderCrossover"
    /\ opOut.op = "none"
    /\ opOut' = [op |-> "orderCrossover",
                 out |-> OrderCrossover(opIn.parent1, opIn.parent2, opIn.r1, opIn.r2)]
    /\ UNCHANGED <<opIn, runVars>>

ApplyValidateChild ==
    /\ opIn.op = "validateChild"
    /\ opOut.op = "none"
    /\ opOut' = [op |-> "validateChild", out |-> ValidateChild(opIn.child)]
    /\ UNCHANGED <<opIn, runVars>>

ApplyEvaluate ==
    /\ opIn.op = "evaluate"
    /\ opOut.op = "none"
    /\ opOut' = [op |-> "evaluate",
                 out |-> Evaluate(opIn.layout, opIn.charset, opIn.data)]
    /\ UNCHANGED <<opIn, runVars>>

OpsNext ==
    \/ ApplyOrderCrossover
    \/ ApplyValidateChild
    \/ ApplyEvaluate

SpecOps == OpsInit /\ [][OpsNext]_vars

----------------------------------------------------------------------------
(* Two runs of generateOffspring over the same population and configuration. *)
(* The workers draw from the process-wide generator of math/rand: nothing in *)
(* the engine seeds it, so each process starts it in a state the runtime     *)
(* picks, and every draw of every worker advances the one generator.  The    *)
(* crossover points come from the process-wide generator of math/rand/v2,    *)
(* which cannot be seeded: they are any points.  A worker is followed in two *)
(* steps, SelectParents and the rest of the job.                             *)

\* number of states of the process-wide generator
GeneratorStates == 8

\* offspring jobs generateOffspring sends, and workers it starts
OffspringJobs == 2
OffspringWorkers == 2

\* the generator after one draw
NextState(g) == (g + 1) % GeneratorStates

\* the value the generator yields in state g
GeneratorValue(g) == (5 * g) % GeneratorStates

\* the generator after k draws
RECURSIVE Advance(_, _)
Advance(g, k) == IF k = 0 THEN g ELSE Advance(NextState(g), k - 1)

\* rand.Intn(n) drawn in state g
Intn(g, n) == (GeneratorValue(g) * n) \div GeneratorStates

\* rand.Float64() drawn in state g compared with a rate in hundredths
Float64Less(g, rate) == GeneratorValue(g) * 100 < rate * GeneratorStates
Float64Greater(g, rate) == GeneratorValue(g) * 100 > rate * GeneratorStates

\* the k-th tournament of tournamentSelect, drawn from state g on
TournamentFrom(g, k, pop, cfg) ==
    [j \in 1..SelectorTournamentSize(cfg) |->
        pop[Intn(Advance(g, (k - 1) * SelectorTournamentSize(cfg) + j - 1), Len(pop)) + 1]]

\* SelectParents with the generator in state g: two tournaments
SelectParentsFrom(g, pop, cfg) ==
    LET t1 == TournamentFrom(g, 1, pop, cfg)
        t2 == TournamentFrom(g, 2, pop, cfg)
    IN [parent1 |-> Clone(TournamentBest(t1, 2, t1[1])),
        parent2 |-> Clone(TournamentBest(t2, 2, t2[1])),
        gen |-> Advance(g, 2 * SelectorTournamentSize(cfg))]

\* "Ensure different positions": pos2 is drawn again while it equals pos1
RECURSIVE RedrawPos2(_, _, _, _)
RedrawPos2(g, pos1, pos2, length) ==
    IF pos1 = pos2 /\ length > 1
    THEN RedrawPos2(NextState(g), pos1, Intn(g, length), length)
    ELSE [pos2 |-> pos2, gen |-> g]

\* Mutator.Apply with the generator in state g
MutatorApplyFrom(g, ind, cfg) ==
    IF Float64Greater(g, cfg.MutationRate)
    THEN [child |-> ind, gen |-> NextState(g)]
    ELSE LET length == Len(ind.Layout)
             pos1 == Intn(Advance(g, 1), length)
             second == RedrawPos2(Advance(g, 3), pos1, Intn(Advance(g, 2), length), length)
         IN [child |-> [swapMutation(Clone(ind), pos1, second.pos2) EXCEPT !.Fitness = 0],
             gen |-> second.gen]

\* the rest of a job with the generator in state g: the crossover or the clone
\* of a parent, the mutation and ValidateChild
BreedFrom(g, parent1, parent2, cfg) ==
    LET crossed == IF Float64Less(g, cfg.CrossoverRate)
                   THEN {[child |-> OrderCrossover(parent1, parent2, r1, r2).child,
                          gen |-> NextState(g)] :
                            r1 \in 0..(Len(parent1.Layout) - 1),
                            r2 \in 0..(Len(parent1.Layout) - 1)}
                   ELSE {[child |-> IF Float64Less(NextState(g), 50)
                                    THEN Clone(parent1) ELSE Clone(parent2),
                          gen |-> Advance(g, 2)]}
    IN {LET m == MutatorApplyFrom(c.gen, c.child, cfg)
        IN [child |-> ValidateChild(m.child), gen |-> m.gen] : c \in crossed}

\* a worker waiting on the jobs channel
IdleWorker == [phase |-> "idle", index |-> 0, parent1 |-> ZeroIndividual,
               parent2 |-> ZeroIndividual]

\* generateOffspring has started its workers and made the offspring slice
OffspringStarted(run, g, first) ==
    [op |-> "generateOffspring", run |-> run, gen |-> g, sent |-> 0,
     workers |-> [w \in 1..OffspringWorkers |-> IdleWorker],
     offspring |-> [i \in 1..OffspringJobs |-> ZeroIndividual],
     first |-> first]

\* the configurations of the two runs: rates in hundredths, 0.8 and 0.1 being
\* the defaults
OffspringConfigs ==
    [PopulationSize : {LargePopulation - 1}, TournamentSize : {2},
     CrossoverRate : {0, 80}, MutationRate : {0, 10}, data : {"first"}]

\* both runs get the same evaluated population and configuration; seeds are the
\* states the generator starts in, one per process
OffspringInit ==
    /\ \E cfg \in OffspringConfigs :
       \E pop \in CreateDiversePopulation(cfg.PopulationSize, cfg.data, AlphabetOnly) :
       \E seeds \in (0..(GeneratorStates - 1)) \X (0..(GeneratorStates - 1)) :
          /\ opIn = [op |-> "generateOffspring", config |-> cfg,
                     population |-> EvaluatePopulation(pop, cfg.data), seeds |-> seeds]
          /\ opOut = OffspringStarted(1, seeds[1], <<>>)
    /\ RunIdle

\* a worker receives the next index from the jobs channel
ReceiveJob(w) ==
    /\ opOut.op = "generateOffspring"
    /\ opOut.run \in {1, 2}
    /\ opOut.workers[w].phase = "idle"
    /\ opOut.sent < OffspringJobs
    /\ opOut' = [opOut EXCEPT !.sent = @ + 1,
                              !.workers[w] = [IdleWorker EXCEPT !.phase = "job",
                                                                !.index = opOut.sent]]
    /\ UNCHANGED <<opIn, runVars>>

\* the worker selects the parents of its job
WorkerSelects(w) ==
    /\ opOut.op = "generateOffspring"
    /\ opOut.workers[w].phase = "job"
    /\ LET sel == SelectParentsFrom(opOut.gen, opIn.population, opIn.config)
       IN opOut' = [opOut EXCEPT !.gen = sel.gen,
                                 !.workers[w] = [@ EXCEPT !.phase = "selected",
                                                          !.parent1 = sel.parent1,
                                                          !.parent2 = sel.parent2]]
    /\ UNCHANGED <<opIn, runVars>>

\* the worker makes the child and sends it; the collector writes it to the slot
\* of the job
WorkerBreeds(w) ==
    /\ opOut.op = "generateOffspring"
    /\ opOut.workers[w].phase = "selected"
    /\ \E o \in BreedFrom(opOut.gen, opOut.workers[w].parent1, opOut.workers[w].parent2,
                          opIn.config) :
          opOut' = [opOut EXCEPT !.gen = o.gen,
                                 !.workers[w] = IdleWorker,
                                 !.offspring[opOut.workers[w].index + 1] = o.child]
    /\ UNCHANGED <<opIn, runVars>>

\* the jobs channel is closed and drained, the workers have returned: the
\* offspring are evaluated and returned; the second run starts in a new process
OffspringReturned ==
    /\ opOut.op = "generateOffspring"
    /\ opOut.run \in {1, 2}
    /\ opOut.sent = OffspringJobs
    /\ \A w \in 1..OffspringWorkers : opOut.workers[w].phase = "idle"
    /\ LET evaluated == EvaluatePopulation(
                            [i \in 1..OffspringJobs |-> opOut.offspring[i]], opIn.config.data)
       IN opOut' = IF opOut.run = 1
                   THEN OffspringStarted(2, opIn.seeds[2], evaluated)
                   ELSE [opOut EXCEPT !.run = 3, !.offspring = evaluated]
    /\ UNCHANGED <<opIn, runVars>>

OffspringNext ==
    \/ \E w \in 1..OffspringWorkers : ReceiveJob(w)
    \/ \E w \in 1..OffspringWorkers : WorkerSelects(w)
    \/ \E w \in 1..OffspringWorkers : WorkerBreeds(w)
    \/ OffspringReturned

SpecRand == OffspringInit /\ [][OffspringNext]_vars

----------------------------------------------------------------------------
(* Layout storage.  An Individual is a struct whose Layout is a slice: an    *)
(* assignment or a parameter passes the slice header, so two Individuals can *)
(* share one backing array.  heap[a] is the backing array at address a; an   *)
(* individual here holds the address of its layout.  Evolve returns freshly  *)
(* allocated individuals (Select clones, the workers clone or build a new    *)
(* child).  The observer may keep the snapshot it was given and write to it. *)

\* generations of the runs that follow the storage
MaxSnapshotGen == 2

\* Individual.Clone: a new backing array with the same content
CloneInHeap(heap, ind) ==
    [heap |-> Append(heap, heap[ind.Layout]),
     ind |-> [Layout |-> Len(heap) + 1, Fitness |-> ind.Fitness]]

\* the assignment of a struct: the same backing array
ShareInHeap(heap, ind) == [heap |-> heap, ind |-> ind]

\* "Find best individual in current generation" over population[i..]:
\* bestIndividual = individual.Clone()
RECURSIVE FindBestInHeap(_, _, _)
FindBestInHeap(pop, i, s) ==
    IF i > Len(pop) THEN s
    ELSE IF ~s.bestInitialized \/ pop[i].Fitness > s.bestFitness
         THEN LET c == CloneInHeap(s.heap, pop[i])
              IN FindBestInHeap(pop, i + 1,
                     [heap |-> c.heap, best |-> c.ind, bestFitness |-> pop[i].Fitness,
                      bestInitialized |-> TRUE])
         ELSE FindBestInHeap(pop, i + 1, s)

\* the populations Evolve can return, by layouts: valid individuals over the
\* alphabet
EvolvedLayouts == [1..(LargePopulation - 1) -> Shuffles(AlphabetOnly)]

\* Run has evaluated its initial population; nothing is recorded or reported yet
SnapshotInit ==
    /\ \E layouts \in EvolvedLayouts : \E gens \in 1..MaxSnapshotGen :
          /\ opIn = [op |-> "snapshots", MaxGenerations |-> gens, data |-> "first"]
          /\ opOut = [op |-> "snapshots", pc |-> "loop", generation |-> 0,
                      heap |-> layouts,
                      population |-> [i \in 1..Len(layouts) |->
                                         [Layout |-> i,
                                          Fitness |-> Evaluate(layouts[i], AlphabetOnly, "first")]],
                      best |-> [Layout |-> 0, Fitness |-> 0],
                      bestFitness |-> -100, bestInitialized |-> FALSE,
                      computed |-> <<>>, snapshots |-> <<>>, written |-> {},
                      result |-> [Layout |-> 0, Fitness |-> 0]]
    /\ RunIdle

\* one pass of the loop: Evolve, the scan for the best, callback(generation,
\* bestIndividual); computed is the layout the engine chose as its best
SnapshotGeneration ==
    /\ opOut.op = "snapshots"
    /\ opOut.pc = "loop"
    /\ opOut.generation < opIn.MaxGenerations
    /\ \E layouts \in EvolvedLayouts :
          LET base == Len(opOut.heap)
              heap1 == opOut.heap \o layouts
              new == [i \in 1..Len(layouts) |->
                         [Layout |-> base + i,
                          Fitness |-> Evaluate(layouts[i], AlphabetOnly, opIn.data)]]
              s == FindBestInHeap(new, 1,
                       [heap |-> heap1, best |-> opOut.best,
                        bestFitness |-> opOut.bestFitness,
                        bestInitialized |-> opOut.bestInitialized])
              passed == ShareInHeap(s.heap, s.best)
          IN opOut' = [opOut EXCEPT !.heap = passed.heap,
                                    !.population = new,
                                    !.best = s.best,
                                    !.bestFitness = s.bestFitness,
                                    !.bestInitialized = s.bestInitialized,
                                    !.computed = IF s.best.Layout = opOut.best.Layout
                                                 THEN @ ELSE s.heap[s.best.Layout],
                                    !.snapshots = Append(@, passed.ind),
                                    !.generation = @ + 1]
    /\ UNCHANGED <<opIn, runVars>>

\* "return bestIndividual, nil"
SnapshotReturn ==
    /\ opOut.op = "snapshots"
    /\ opOut.pc = "loop"
    /\ opOut.generation >= opIn.MaxGenerations
    /\ opOut' = [opOut EXCEPT !.pc = "done",
                              !.result = ShareInHeap(opOut.heap, opOut.best).ind]
    /\ UNCHANGED <<opIn, runVars>>

\* the observer overwrites a position of the layout of a snapshot it received
ObserverWrites ==
    /\ opOut.op = "snapshots"
    /\ \E k \in 1..Len(opOut.snapshots) :
       \E i \in 1..AlphabetSize :
          /\ opOut.heap[opOut.snapshots[k].Layout][i] # Null
          /\ opOut' = [opOut EXCEPT !.heap[opOut.snapshots[k].Layout][i] = Null,
                                    !.written = @ \cup {opOut.snapshots[k].Layout}]
    /\ UNCHANGED <<opIn, runVars>>

SnapshotNext ==
    \/ SnapshotGeneration
    \/ SnapshotReturn
    \/ ObserverWrites

SpecSnapshot == SnapshotInit /\ [][SnapshotNext]_vars

----------------------------------------------------------------------------
(* The worker pools of one run, goroutine by goroutine.  Run evaluates the   *)
(* initial population; each generation is Evolve's evaluation of the         *)
(* population, generateOffspring and the evaluation of the offspring.  Each  *)
(* of these starts its workers, a sender that fills the jobs channel, a      *)
(* waiter that closes the results channel after wg.Wait(), and collects the  *)
(* results by index until the channel is closed.  Both channels are buffered *)
(* with one place per job, so no send blocks.                                *)

\* runtime.NumCPU()
NumCPU == 2

\* generations of the runs followed goroutine by goroutine
MaxPoolGen == 2

\* NewParallelEvaluator: workerCount <= 0 becomes runtime.NumCPU()
EvaluatorWorkerCount(cfg) ==
    IF cfg.ParallelWorkers <= 0 THEN NumCPU ELSE cfg.ParallelWorkers

\* NewParallelEvolver: workerCount is config.ParallelWorkers
OffspringWorkerCount(cfg) == cfg.ParallelWorkers

\* the workers the pool of a stage starts
PoolWorkerCount(stage, cfg) ==
    IF stage = "offspring" THEN OffspringWorkerCount(cfg) ELSE EvaluatorWorkerCount(cfg)

\* the waiter that closes the results channel without waiting for the workers
WaiterReadyAtOnce(workers) == TRUE

\* wg.Wait() returns: every worker has called wg.Done()
WaiterReady(workers) == \A w \in 1..Len(workers) : workers[w].phase = "done"

\* the collector that writes every result to the first slot
ResultSlotFirst(r) == 0

\* the slot the collector writes a result to: population[result.index]
ResultSlot(r) == r.index

\* what a worker computes for the job index: the fitness of the item, or a child
\* made from the population
JobValues(stage, items, pop, cfg, index) ==
    IF stage = "offspring"
    THEN {o.child : o \in {x \in offspringWorker(pop, cfg) : ~x.panic}}
    ELSE {Evaluate(items[index + 1].Layout, items[index + 1].Charset, cfg.data)}

\* the collector's write of a result value to an item
WriteResult(stage, item, value) ==
    IF stage = "offspring" THEN value ELSE [item EXCEPT !.Fitness = value]

\* the configurations of the runs followed goroutine by goroutine
PoolConfigs ==
    [PopulationSize : {LargePopulation - 1}, ElitismCount : {0, 1}, TournamentSize : {2},
     MaxGenerations : {1, MaxPoolGen}, ParallelWorkers : {0, 1, 2}, data : {"first"}]

\* the pool of a stage before StartPool
NoPool ==
    [jobs |-> <<>>, jobsClosed |-> FALSE, next |-> 0, senderDone |-> FALSE,
     results |-> <<>>, resultsClosed |-> FALSE, workers |-> <<>>,
     dispatched |-> <<>>, writes |-> <<>>]

\* Run has created its population and calls EvaluatePopulation
PoolInit ==
    /\ \E cfg \in PoolConfigs :
       \E pop \in CreateDiversePopulation(cfg.PopulationSize, cfg.data, AlphabetOnly) :
          /\ opIn = [op |-> "pools", config |-> cfg]
          /\ opOut = [op |-> "pools", stage |-> "initial", generation |-> 0, pc |-> "call",
                      items |-> pop, population |-> pop, elites |-> <<>>,
                      pool |-> NoPool, cancelled |-> FALSE, err |-> "none",
                      stragglers |-> {}, senders |-> {}]
    /\ RunIdle

\* the call makes the channels and starts the workers, the sender and the
\* waiter; EvaluatePopulation of an empty population returns nil at once
StartPool ==
    /\ opOut.op = "pools"
    /\ opOut.pc = "call"
    /\ opOut' =
          IF Len(opOut.items) = 0 /\ opOut.stage # "offspring"
          THEN [opOut EXCEPT !.pc = "returned", !.err = "nil", !.pool = NoPool]
          ELSE [opOut EXCEPT
                   !.pc = "collect",
                   !.err = "none",
                   !.pool = [NoPool EXCEPT
                       !.workers = [w \in 1..PoolWorkerCount(opOut.stage, opIn.config) |->
                                       [phase |-> "select", index |-> 0, value |-> 0]],
                       !.dispatched = [i \in 1..Len(opOut.items) |-> 0],
                       !.writes = [i \in 1..Len(opOut.items) |-> 0]]]
    /\ UNCHANGED <<opIn, runVars>>

\* the sender: "case jobs <- i"
SenderSends ==
    /\ opOut.op = "pools"
    /\ opOut.pc = "collect"
    /\ ~opOut.pool.senderDone
    /\ opOut.pool.next < Len(opOut.items)
    /\ opOut' = [opOut EXCEPT !.pool.jobs = Append(@, opOut.pool.next),
                              !.pool.next = @ + 1]
    /\ UNCHANGED <<opIn, runVars>>

\* the sender that returns without its deferred close(jobs)
SenderStopsWithoutClose ==
    /\ opOut.op = "pools"
    /\ opOut.pc = "collect"
    /\ ~opOut.pool.senderDone
    /\ opOut.pool.next >= Len(opOut.items) \/ opOut.cancelled
    /\ opOut' = [opOut EXCEPT !.pool.senderDone = TRUE]
    /\ UNCHANGED <<opIn, runVars>>

\* the sender returns, after the last job or on ctx.Done(), and the deferred
\* close(jobs) runs
SenderStops ==
    /\ opOut.op = "pools"
    /\ opOut.pc = "collect"
    /\ ~opOut.pool.senderDone
    /\ opOut.pool.next >= Len(opOut.items) \/ opOut.cancelled
    /\ opOut' = [opOut EXCEPT !.pool.senderDone = TRUE, !.pool.jobsClosed = TRUE]
    /\ UNCHANGED <<opIn, runVars>>

\* a worker: "case index, ok := <-jobs" with a job in the channel
WorkerReceives(w) ==
    /\ opOut.op = "pools"
    /\ w \in 1..Len(opOut.pool.workers)
    /\ opOut.pool.workers[w].phase = "select"
    /\ opOut.pool.jobs # <<>>
    /\ LET index == Head(opOut.pool.jobs)
       IN opOut' = [opOut EXCEPT !.pool.jobs = Tail(@),
                                 !.pool.workers[w].phase = "work",
                                 !.pool.workers[w].index = index,
                                 !.pool.dispatched[index + 1] = @ + 1]
    /\ UNCHANGED <<opIn, runVars>>

\* the worker evaluates the item of its job, or makes the child of its job
WorkerWorks(w) ==
    /\ opOut.op = "pools"
    /\ w \in 1..Len(opOut.pool.workers)
    /\ opOut.pool.workers[w].phase = "work"
    /\ \E v \in JobValues(opOut.stage, opOut.items, opOut.population, opIn.config,
                          opOut.pool.workers[w].index) :
          opOut' = [opOut EXCEPT !.pool.workers[w].phase = "send",
                                 !.pool.workers[w].value = v]
    /\ UNCHANGED <<opIn, runVars>>

\* the worker: "case results <- ..."
WorkerSends(w) ==
    /\ opOut.op = "pools"
    /\ w \in 1..Len(opOut.pool.workers)
    /\ opOut.pool.workers[w].phase = "send"
    /\ opOut' = [opOut EXCEPT
                    !.pool.results = Append(@, [index |-> opOut.pool.workers[w].index,
                                                value |-> opOut.pool.workers[w].value]),
                    !.pool.workers[w].phase = "select"]
    /\ UNCHANGED <<opIn, runVars>>

\* the worker returns: the jobs channel is closed and empty, or "case <-ctx.Done()"
\* at either select; the deferred wg.Done() runs
WorkerReturns(w) ==
    /\ opOut.op = "pools"
    /\ w \in 1..Len(opOut.pool.workers)
    /\ \/ /\ opOut.pool.workers[w].phase = "select"
          /\ opOut.pool.jobs = <<>>
          /\ opOut.pool.jobsClosed
       \/ /\ opOut.pool.workers[w].phase \in {"select", "send"}
          /\ opOut.cancelled
    /\ opOut' = [opOut EXCEPT !.pool.workers[w].phase = "done"]
    /\ UNCHANGED <<opIn, runVars>>

\* the waiter: wg.Wait() has returned, close(results)
WaiterCloses ==
    /\ opOut.op = "pools"
    /\ opOut.pc = "collect"
    /\ ~opOut.pool.resultsClosed
    /\ WaiterReady(opOut.pool.workers)
    /\ opOut' = [opOut EXCEPT !.pool.resultsClosed = TRUE]
    /\ UNCHANGED <<opIn, runVars>>

\* the collector takes a result from the channel and writes it to its slot
CollectorWrites ==
    /\ opOut.op = "pools"
    /\ opOut.pc = "collect"
    /\ opOut.pool.results # <<>>
    /\ LET r == Head(opOut.pool.results)
           slot == ResultSlot(r) + 1
       IN opOut' = [opOut EXCEPT
                       !.pool.results = Tail(@),
                       !.pool.writes[slot] = @ + 1,
                       !.items[slot] = WriteResult(opOut.stage, @, r.value)]
    /\ UNCHANGED <<opIn, runVars>>

\* the results channel is closed and empty: EvaluatePopulation returns ctx.Err();
\* generateOffspring goes on to evaluate the offspring
PoolReturns ==
    /\ opOut.op = "pools"
    /\ opOut.pc = "collect"
    /\ opOut.pool.results = <<>>
    /\ opOut.pool.resultsClosed
    /\ opOut' = [opOut EXCEPT
                    !.pc = "returned",
                    !.err = IF opOut.stage # "offspring" /\ opOut.cancelled
                            THEN "canceled" ELSE "nil"]
    /\ UNCHANGED <<opIn, runVars>>

\* the workers of the pool that is left which have not returned
Stragglers(o) ==
    {[stage |-> o.stage, generation |-> o.generation, worker |-> w] :
        w \in {x \in 1..Len(o.pool.workers) : o.pool.workers[x].phase # "done"}}

\* the job-feeding goroutine of the pool that is left, if it has not returned:
\* the jobs it has sent and the jobs it was to send
LateSenders(o) ==
    IF o.pool = NoPool \/ o.pool.senderDone THEN {}
    ELSE {[stage |-> o.stage, generation |-> o.generation,
           next |-> o.pool.next, count |-> Len(o.items)]}

\* what follows a returned call: Run's return on an error, the next call of the
\* generation, or the next generation after the check of ctx.Done()
Proceed ==
    /\ opOut.op = "pools"
    /\ opOut.pc = "returned"
    /\ LET left == [opOut EXCEPT !.stragglers = @ \cup Stragglers(opOut),
                                 !.senders = @ \cup LateSenders(opOut)]
           cfg == opIn.config
       IN IF opOut.err # "nil"
          THEN opOut' = [left EXCEPT !.pc = "finished"]
          ELSE CASE opOut.stage = "initial" ->
                      opOut' = IF opOut.cancelled \/ cfg.MaxGenerations = 0
                               THEN [left EXCEPT !.pc = "finished", !.population = opOut.items,
                                                 !.err = IF opOut.cancelled
                                                         THEN "canceled" ELSE "nil"]
                               ELSE [left EXCEPT !.stage = "evolveEval", !.pc = "call",
                                                 !.population = opOut.items]
                 [] opOut.stage = "evolveEval" ->
                      \E elites \in [1..cfg.ElitismCount -> tournamentSelect(opOut.items, cfg)] :
                         opOut' = [left EXCEPT
                                      !.stage = "offspring", !.pc = "call",
                                      !.population = opOut.items,
                                      !.elites = elites,
                                      !.items = [i \in 1..(cfg.PopulationSize - cfg.ElitismCount)
                                                    |-> ZeroIndividual]]
                 [] opOut.stage = "offspring" ->
                      opOut' = [left EXCEPT !.stage = "offspringEval", !.pc = "call"]
                 [] OTHER ->
                      opOut' = IF opOut.cancelled
                                  \/ opOut.generation + 1 >= cfg.MaxGenerations
                               THEN [left EXCEPT !.pc = "finished",
                                                 !.generation = @ + 1,
                                                 !.population = opOut.elites \o opOut.items,
                                                 !.err = IF opOut.cancelled
                                                            /\ opOut.generation + 1
                                                                   < cfg.MaxGenerations
                                                         THEN "canceled" ELSE "nil"]
                               ELSE [left EXCEPT !.stage = "evolveEval", !.pc = "call",
                                                 !.generation = @ + 1,
                                                 !.population = opOut.elites \o opOut.items,
                                                 !.items = opOut.elites \o opOut.items]
    /\ UNCHANGED <<opIn, runVars>>

\* the caller cancels the context
PoolCancel ==
    /\ opOut.op = "pools"
    /\ opOut.pc # "finished"
    /\ ~opOut.cancelled
    /\ opOut' = [opOut EXCEPT !.cancelled = TRUE]
    /\ UNCHANGED <<opIn, runVars>>

\* the sender of a call that is over: "case jobs <- i" into its own channel,
\* which has room for every job
LateSenderSends ==
    /\ opOut.op = "pools"
    /\ \E s \in opOut.senders :
          /\ s.next < s.count
          /\ opOut' = [opOut EXCEPT !.senders = (@ \ {s}) \cup {[s EXCEPT !.next = @ + 1]}]
    /\ UNCHANGED <<opIn, runVars>>

\* the sender of a call that is over returns, after its last job or on ctx.Done()
LateSenderStops ==
    /\ opOut.op = "pools"
    /\ \E s \in opOut.senders :
          /\ s.next >= s.count \/ opOut.cancelled
          /\ opOut' = [opOut EXCEPT !.senders = @ \ {s}]
    /\ UNCHANGED <<opIn, runVars>>

PoolNext ==
    \/ StartPool
    \/ SenderSends
    \/ SenderStops
    \/ \E w \in 1..Max(NumCPU, 2) : WorkerReceives(w)
    \/ \E w \in 1..Max(NumCPU, 2) : WorkerWorks(w)
    \/ \E w \in 1..Max(NumCPU, 2) : WorkerSends(w)
    \/ \E w \in 1..Max(NumCPU, 2) : WorkerReturns(w)
    \/ WaiterCloses
    \/ CollectorWrites
    \/ PoolReturns
    \/ Proceed
    \/ PoolCancel
    \/ LateSenderSends
    \/ LateSenderStops

SpecPool == PoolInit /\ [][PoolNext]_vars

\* runs of one generation, every goroutine that can take a step taking it in the
\* end; the caller may cancel at any step or never
PoolInitFair == PoolInit /\ opIn.config.MaxGenerations = 1 /\ opIn.config.ElitismCount = 1

PoolFairness ==
    /\ WF_vars(StartPool)
    /\ WF_vars(SenderSends)
    /\ WF_vars(SenderStops)
    /\ \A w \in 1..Max(NumCPU, 2) :
          /\ WF_vars(WorkerReceives(w))
          /\ WF_vars(WorkerWorks(w))
          /\ WF_vars(WorkerSends(w))
          /\ WF_vars(WorkerReturns(w))
    /\ WF_vars(WaiterCloses)
    /\ WF_vars(CollectorWrites)
    /\ WF_vars(PoolReturns)
    /\ WF_vars(Proceed)
    /\ WF_vars(LateSenderSends)
    /\ WF_vars(LateSenderStops)

SpecPoolFair == PoolInitFair /\ [][PoolNext]_vars /\ PoolFairness

----------------------------------------------------------------------------
(* Configuration validation: Config.Validate and Config.ValidateForWASM of   *)
(* pkg/config, and validateConfig of cmd/keyboardgen.  Rates and the         *)
(* tolerance are in hundredths.  InputFile is "", the name of a file that is *)
(* missing, or the name of a file that is present.                           *)

\* "population size must be at least 10"
MinPopulationSize == 10

\* Config.validateCommon: the first failed check, or "nil"
validateCommon(c) ==
    IF c.PopulationSize < MinPopulationSize THEN "population size must be at least 10"
    ELSE IF c.MaxGeneration < 0 THEN "max generations must be non-negative"
    ELSE IF c.MaxGeneration = 0 /\ c.ConvergenceStops = 0
         THEN "either max generations or convergence stops must be set"
    ELSE IF c.ConvergenceStops < 0 THEN "convergence stops must be non-negative"
    ELSE IF c.ConvergenceTolerance < 0 THEN "convergence tolerance must be non-negative"
    ELSE IF c.MutationRate < 0 \/ c.MutationRate > 100
         THEN "mutation rate must be between 0 and 1"
    ELSE IF c.CrossoverRate < 0 \/ c.CrossoverRate > 100
         THEN "crossover rate must be between 0 and 1"
    ELSE IF c.ElitismCount < 0 \/ c.ElitismCount >= c.PopulationSize
         THEN "elitism count must be between 0 and population size"
    ELSE IF c.WorkerCount < 0 THEN "worker count must be non-negative"
    ELSE IF c.SaveInterval < 0 THEN "save interval must be non-negative"
    ELSE "nil"

\* Config.Validate, for the command line
Validate(c) ==
    IF c.InputFile = "" /\ c.InputText = ""
    THEN "either input file or input text is required"
    ELSE IF c.InputFile = "missing" THEN "input file does not exist"
    ELSE validateCommon(c)

\* Config.ValidateForWASM
ValidateForWASM(c) ==
    IF c.InputText = "" THEN "input text is required for WASM"
    ELSE validateCommon(c)

\* validateConfig of cmd/keyboardgen/main.go
validateConfig(c) ==
    IF c.InputFile = "" THEN "input file is required"
    ELSE IF c.InputFile = "missing" THEN "input file does not exist"
    ELSE IF c.PopulationSize < MinPopulationSize THEN "population size must be at least 10"
    ELSE IF c.MaxGeneration < 0 THEN "max generations must be non-negative"
    ELSE IF c.MaxGeneration = 0 /\ c.ConvergenceStops = 0
         THEN "either max generations or convergence stops must be set"
    ELSE IF c.ConvergenceStops < 0 THEN "convergence stops must be non-negative"
    ELSE IF c.ConvergenceTolerance < 0 THEN "convergence tolerance must be non-negative"
    ELSE IF c.MutationRate < 0 \/ c.MutationRate > 100
         THEN "mutation rate must be between 0 and 1"
    ELSE IF c.CrossoverRate < 0 \/ c.CrossoverRate > 100
         THEN "crossover rate must be between 0 and 1"
    ELSE IF c.ElitismCount < 0 \/ c.ElitismCount >= c.PopulationSize
         THEN "elitism count must be between 0 and population size"
    ELSE "nil"

\* the validators
Validators == {"Validate", "ValidateForWASM", "validateConfig"}

\* the configurations handed to a validator: each field below, at and above the
\* limits the validators compare it with
ValidateInit ==
    /\ \E v \in Validators :
       \E c \in [InputFile : {"", "missing", "present"}, InputText : {"", "text"},
                 PopulationSize : {MinPopulationSize - 1, MinPopulationSize,
                                   MinPopulationSize + 1},
                 MaxGeneration : {-1, 0, 1}, ConvergenceStops : {-1, 0, 1},
                 ConvergenceTolerance : {-1, 0}, MutationRate : {-1, 0, 100, 101},
                 CrossoverRate : {-1, 100, 101},
                 ElitismCount : {-1, 0, MinPopulationSize - 1, MinPopulationSize},
                 WorkerCount : {-1, 0}, SaveInterval : {-1, 0}] :
          opIn = [op |-> v, config |-> c]
    /\ opOut = [op |-> "none"]
    /\ RunIdle

ApplyValidate ==
    /\ opIn.op = "Validate"
    /\ opOut.op = "none"
    /\ opOut' = [op |-> "Validate", err |-> Validate(opIn.config)]
    /\ UNCHANGED <<opIn, runVars>>

ApplyValidateForWASM ==
    /\ opIn.op = "ValidateForWASM"
    /\ opOut.op = "none"
    /\ opOut' = [op |-> "ValidateForWASM", err |-> ValidateForWASM(opIn.config)]
    /\ UNCHANGED <<opIn, runVars>>

ApplyValidateConfig ==
    /\ opIn.op = "validateConfig"
    /\ opOut.op = "none"
    /\ opOut' = [op |-> "validateConfig", err |-> validateConfig(opIn.config)]
    /\ UNCHANGED <<opIn, runVars>>

ValidateNext ==
    \/ ApplyValidate
    \/ ApplyValidateForWASM
    \/ ApplyValidateConfig

SpecValidate == ValidateInit /\ [][ValidateNext]_vars

----------------------------------------------------------------------------
(* Selector.tournamentSelect with its draws and its layout storage: the      *)
(* population holds the addresses of its layouts, draws[k][j] is the index   *)
(* rand.Intn gives for member j of tournament k, and the caller may write to *)
(* the layouts of the individuals it was returned.                           *)

\* largest count asked of tournamentSelect, and largest tournament size
MaxSelectCount == 2
MaxTournamentSize == 3

\* the tournament of the draws: tournament[j] = population[idx]
TournamentOf(pop, draw) == [j \in 1..Len(draw) |-> pop[draw[j] + 1]]

\* tournamentSelect over tournaments k..Len(draws): the best of each tournament
\* is cloned and appended to selected
RECURSIVE tournamentSelectFrom(_, _, _, _)
tournamentSelectFrom(pop, draws, k, s) ==
    IF k > Len(draws) THEN s
    ELSE LET tournament == TournamentOf(pop, draws[k])
             best == TournamentBest(tournament, 2, tournament[1])
             c == CloneInHeap(s.heap, best)
         IN tournamentSelectFrom(pop, draws, k + 1,
                [heap |-> c.heap, selected |-> Append(s.selected, c.ind)])

\* the evaluated populations tournamentSelect is called on, by layouts
SelectPopulations ==
    UNION {[1..n -> Shuffles(AlphabetOnly)] : n \in 1..MaxPopulation}

SelectInit ==
    /\ \E layouts \in SelectPopulations :
       \E data \in {"first", "flat"} :
       \E count \in 0..MaxSelectCount :
       \E size \in 1..MaxTournamentSize :
       \E draws \in [1..count -> [1..size -> 0..(Len(layouts) - 1)]] :
          opIn = [op |-> "tournamentSelect", count |-> count, TournamentSize |-> size,
                  draws |-> draws, layouts |-> layouts,
                  population |-> [i \in 1..Len(layouts) |->
                                     [Layout |-> i,
                                      Fitness |-> Evaluate(layouts[i], AlphabetOnly, data)]]]
    /\ opOut = [op |-> "none"]
    /\ RunIdle

ApplyTournamentSelect ==
    /\ opIn.op = "tournamentSelect"
    /\ opOut.op = "none"
    /\ LET s == tournamentSelectFrom(opIn.population, opIn.draws, 1,
                                     [heap |-> opIn.layouts, selected |-> <<>>])
       IN opOut' = [op |-> "tournamentSelect", heap |-> s.heap, selected |-> s.selected,
                    written |-> {}]
    /\ UNCHANGED <<opIn, runVars>>

\* the caller overwrites a position of the layout of a returned individual
CallerWrites ==
    /\ opOut.op = "tournamentSelect"
    /\ \E k \in 1..Len(opOut.selected) :
       \E i \in 1..AlphabetSize :
          /\ opOut.heap[opOut.selected[k].Layout][i] # Null
          /\ opOut' = [opOut EXCEPT !.heap[opOut.selected[k].Layout][i] = Null,
                                    !.written = @ \cup {k}]
    /\ UNCHANGED <<opIn, runVars>>

SelectNext ==
    \/ ApplyTournamentSelect
    \/ CallerWrites

SpecSelect == SelectInit /\ [][SelectNext]_vars

----------------------------------------------------------------------------
(* The configuration by corpus size: AdaptiveConfig and the driver's         *)
(* createGAConfig. Rates are in hundredths, the tolerance in millionths.     *)

\* the data sizes AdaptiveConfig compares with
MediumDataSize == 10000
LargeDataSize == 100000

\* how far around 0 and around each threshold the corpus sizes are taken
SizeMargin == 2

DefaultConfig ==
    [PopulationSize |-> 100, MaxGenerations |-> 1000, MutationRate |-> 10,
     CrossoverRate |-> 80, ElitismCount |-> 5, TournamentSize |-> 3,
     ParallelWorkers |-> 4, ConvergenceStops |-> 0, ConvergenceTolerance |-> 0]

LargeDatasetConfig ==
    [PopulationSize |-> 500, MaxGenerations |-> 100, MutationRate |-> 30,
     CrossoverRate |-> 90, ElitismCount |-> 2, TournamentSize |-> 7,
     ParallelWorkers |-> 8, ConvergenceStops |-> 0, ConvergenceTolerance |-> 0]

AdaptiveConfig(dataSize) ==
    IF dataSize > LargeDataSize THEN LargeDatasetConfig
    ELSE IF dataSize > MediumDataSize
         THEN [PopulationSize |-> 200, MaxGenerations |-> 200, MutationRate |-> 20,
               CrossoverRate |-> 85, ElitismCount |-> 3, TournamentSize |-> 5,
               ParallelWorkers |-> 6, ConvergenceStops |-> 0, ConvergenceTolerance |-> 0]
         ELSE DefaultConfig

\* config.Default(): the application configuration when nothing was set
Default ==
    [PopulationSize |-> 100, MaxGeneration |-> 1000, MutationRate |-> 10,
     CrossoverRate |-> 80, ElitismCount |-> 5, WorkerCount |-> 0,
     ConvergenceStops |-> 0, ConvergenceTolerance |-> 1]

IsUsingDefaultGeneticParams(c) ==
    c.MutationRate = 10 /\ c.CrossoverRate = 80 /\ c.ElitismCount = 5

createGAConfig(c, totalChars) ==
    IF IsUsingDefaultGeneticParams(c)
    THEN LET a == AdaptiveConfig(totalChars)
         IN [a EXCEPT
               !.PopulationSize = IF c.PopulationSize # 100 THEN c.PopulationSize ELSE @,
               !.ConvergenceStops = IF c.ConvergenceStops > 0 THEN c.ConvergenceStops ELSE @,
               !.ConvergenceTolerance =
                   IF c.ConvergenceTolerance # 1 THEN c.ConvergenceTolerance ELSE @,
               !.MaxGenerations = IF c.MaxGeneration # 1000 THEN c.MaxGeneration ELSE @]
    ELSE [PopulationSize |-> c.PopulationSize, MaxGenerations |-> c.MaxGeneration,
          MutationRate |-> c.MutationRate, CrossoverRate |-> c.CrossoverRate,
          ElitismCount |-> c.ElitismCount, TournamentSize |-> 3,
          ParallelWorkers |-> c.WorkerCount, ConvergenceStops |-> c.ConvergenceStops,
          ConvergenceTolerance |-> c.ConvergenceTolerance]

\* corpus sizes: the smallest ones and those around the two thresholds
DataSizes ==
    (0..SizeMargin)
        \cup ((MediumDataSize - SizeMargin)..(MediumDataSize + SizeMargin))
        \cup ((LargeDataSize - SizeMargin)..(LargeDataSize + SizeMargin))

\* application configurations: the defaults and settings of the user
AppConfigs ==
    [PopulationSize : {100, 50}, MaxGeneration : {1000, 10}, MutationRate : {10, 20},
     CrossoverRate : {80}, ElitismCount : {5, 3}, WorkerCount : {0, 2},
     ConvergenceStops : {0, 5}, ConvergenceTolerance : {1, 0}]

AdaptiveInit ==
    /\ \E n \in DataSizes : \E c \in AppConfigs :
          opIn = [op |-> "createGAConfig", dataSize |-> n, config |-> c]
    /\ opOut = [op |-> "none"]
    /\ RunIdle

ApplyAdaptiveConfig ==
    /\ opIn.op = "createGAConfig"
    /\ opOut.op = "none"
    /\ opOut' = [op |-> "AdaptiveConfig", config |-> AdaptiveConfig(opIn.dataSize)]
    /\ UNCHANGED <<opIn, runVars>>

ApplyCreateGAConfig ==
    /\ opIn.op = "createGAConfig"
    /\ opOut.op = "none"
    /\ opOut' = [op |-> "createGAConfig",
                 config |-> createGAConfig(opIn.config, opIn.dataSize)]
    /\ UNCHANGED <<opIn, runVars>>

AdaptiveNext ==
    \/ ApplyAdaptiveConfig
    \/ ApplyCreateGAConfig

SpecAdaptive == AdaptiveInit /\ [][AdaptiveNext]_vars

----------------------------------------------------------------------------
(* FitnessEvaluator.Evaluate over a frequency model, component by component. *)
(* Scores are exact fractions <<n, d>>, d > 0; weights are in hundredths.     *)
(* A frequency model is [CharFrequency, BigramFreq]: BigramFreq maps pairs of *)
(* characters (two-byte strings) to their counts.  The layouts of the model   *)
(* have fewer than ten keys, so every key is on the top row of the geometry.  *)

\* most different digrams in a frequency model, and largest count of one
MaxDigrams == 2
MaxDigramCount == 2

RECURSIVE GCD(_, _)
GCD(a, b) == IF b = 0 THEN a ELSE GCD(b, a % b)

Frac(n, d) == LET g == GCD(Abs(n), d) IN <<n \div g, d \div g>>
FracAdd(f, g) == Frac(f[1] * g[2] + g[1] * f[2], f[2] * g[2])
FracScale(k, f) == Frac(k * f[1], f[2])
FracLess(f, g) == f[1] * g[2] < g[1] * f[2]

\* StandardGeometry(): x doubled, y, and the finger of each of the 26 positions
StandardGeometry ==
    [KeyPositions |->
        [pos \in 0..25 |->
            IF pos <= 9 THEN <<2 * pos, 0>>
            ELSE IF pos <= 18 THEN <<2 * (pos - 10) + 1, 1>>
            ELSE <<2 * (pos - 19) + 2, 2>>],
     FingerMap |->
        [pos \in 0..25 |->
            IF pos <= 9 THEN <<0, 1, 2, 3, 3, 4, 4, 5, 6, 7>>[pos + 1]
            ELSE IF pos <= 18 THEN <<0, 1, 2, 3, 4, 4, 5, 6, 7>>[pos - 9]
            ELSE <<0, 1, 2, 3, 4, 5, 6>>[pos - 18]]]

DefaultWeights ==
    [FingerDistance |-> 10, HandAlternation |-> 10, FingerBalance |-> 10,
     RowJumping |-> 6, BigramEfficiency |-> 6, SameFingerBigrams |-> 20,
     LateralStretches |-> 4, RollQuality |-> 4, LayerPenalty |-> 10,
     HomeRowBonus |-> 8, RollRatioTarget |-> 4, ThresholdBonuses |-> 4,
     PositionMatching |-> 4]

\* the characters that need Shift (the upper-case letters and symbols of the
\* full keyboard set) and those that need AltGr (in no built-in set)
shiftChars == {c \in 1..FullSize : c > AlphabetSize}
altGrChars == {CustomSize}

\* charToPos: the positions, from 0, of the characters of the layout
charToPos(layout) ==
    [c \in Range(layout) |-> (CHOOSE i \in 1..Len(layout) : layout[i] = c) - 1]

RECURSIVE SumFreq(_)
SumFreq(S) ==
    IF S = {} THEN 0
    ELSE LET b == CHOOSE x \in S : TRUE IN b.freq + SumFreq(S \ {b})

\* the bigrams a component's loop gets past "Skip bigrams with characters not in
\* our layout", with their positions, fingers and coordinates
PlacedBigrams(layout, data) ==
    LET pos == charToPos(layout)
    IN {[pos1 |-> pos[b[1]], pos2 |-> pos[b[2]],
         finger1 |-> StandardGeometry.FingerMap[pos[b[1]]],
         finger2 |-> StandardGeometry.FingerMap[pos[b[2]]],
         coord1 |-> StandardGeometry.KeyPositions[pos[b[1]]],
         coord2 |-> StandardGeometry.KeyPositions[pos[b[2]]],
         freq |-> data.BigramFreq[b]] :
            b \in {x \in DOMAIN data.BigramFreq :
                      x[1] \in DOMAIN pos /\ x[2] \in DOMAIN pos}}

\* the characters of the set with a frequency, as [char, pos, freq]
CountedChars(layout, cs, data) ==
    LET pos == charToPos(layout)
    IN {[char |-> c, pos |-> IF c \in DOMAIN pos THEN pos[c] ELSE -1,
         freq |-> data.CharFrequency[c]] :
            c \in {x \in Range(cs.Characters) : data.CharFrequency[x] > 0}}

\* b with its frequency multiplied by k
Times(k, b) == [b EXCEPT !.freq = k * @]

sameHand(b) ==
    (b.finger1 < 4 /\ b.finger2 < 4) \/ (b.finger1 >= 4 /\ b.finger2 >= 4)

calculateFingerDistance(layout, cs, data) ==
    LET B == PlacedBigrams(layout, data)
        totalFreq == SumFreq(B)
        \* all keys on one row: the distance is the difference of the x
        totalDistance2 == SumFreq({Times(Abs(b.coord1[1] - b.coord2[1]), b) : b \in B})
    IN IF totalFreq = 0 THEN <<0, 1>>
       ELSE Frac(2 * totalFreq, 2 * totalFreq + totalDistance2)

calculateHandAlternation(layout, cs, data) ==
    LET B == PlacedBigrams(layout, data)
        total == SumFreq(B)
    IN IF total = 0 THEN <<0, 1>>
       ELSE Frac(SumFreq({b \in B : ~sameHand(b)}), total)

\* 1/(1 + stdDev/mean) is kept as (stdDev/mean)^2, of which it is a one-to-one
\* function; zero says that no character has a frequency and the score is 0
calculateFingerBalance(layout, cs, data) ==
    LET C == CountedChars(layout, cs, data)
        totalFreq == SumFreq(C)
        fingerFreq(f) == SumFreq({c \in C : StandardGeometry.FingerMap[c.pos] = f})
        RECURSIVE Squares(_)
        Squares(f) == IF f > 7 THEN 0
                      ELSE (8 * fingerFreq(f) - totalFreq) * (8 * fingerFreq(f) - totalFreq)
                               + Squares(f + 1)
    IN IF totalFreq = 0 THEN [zero |-> TRUE, spread |-> <<0, 1>>]
       ELSE [zero |-> FALSE, spread |-> Frac(Squares(0), 8 * totalFreq * totalFreq)]

calculateRowJumping(layout, cs, data) ==
    LET B == PlacedBigrams(layout, data)
        total == SumFreq(B)
    IN IF total = 0 THEN <<1, 1>>
       ELSE Frac(total - SumFreq({b \in B : b.coord1[2] # b.coord2[2]}), total)

\* in tenths
rateBigramEfficiency(finger1, finger2) ==
    IF finger1 = finger2 THEN 1
    ELSE IF Abs(finger1 - finger2) = 1
            /\ ((finger1 < 4 /\ finger2 < 4) \/ (finger1 >= 4 /\ finger2 >= 4)) THEN 3
    ELSE IF (finger1 < 4 /\ finger2 >= 4) \/ (finger1 >= 4 /\ finger2 < 4) THEN 10
    ELSE 6

calculateBigramEfficiency(layout, cs, data) ==
    LET B == PlacedBigrams(layout, data)
        totalFreq == SumFreq(B)
    IN IF totalFreq = 0 THEN <<0, 1>>
       ELSE Frac(SumFreq({Times(rateBigramEfficiency(b.finger1, b.finger2), b) : b \in B}),
                 10 * totalFreq)

calculateSameFingerBigrams(layout, cs, data) ==
    LET B == PlacedBigrams(layout, data)
        totalBigrams == SumFreq(B)
    IN IF totalBigrams = 0 THEN <<1, 1>>
       ELSE Frac(totalBigrams - SumFreq({b \in B : b.finger1 = b.finger2}), totalBigrams)

calculateLateralStretches(layout, cs, data) ==
    LET B == PlacedBigrams(layout, data)
        totalBigrams == SumFreq(B)
        isLSB(b) == /\ \/ b.finger1 = 3 /\ b.finger2 = 3
                       \/ b.finger1 = 4 /\ b.finger2 = 4
                    /\ b.coord1[2] = b.coord2[2]
                    /\ Abs(b.coord1[1] - b.coord2[1]) > 4
    IN IF totalBigrams = 0 THEN <<1, 1>>
       ELSE Frac(totalBigrams - SumFreq({b \in B : isLSB(b)}), totalBigrams)

isRoll(b) ==
    Abs(b.finger1 - b.finger2) = 1 /\ b.coord1[2] = b.coord2[2]

calculateRollQuality(layout, cs, data) ==
    LET B == PlacedBigrams(layout, data)
        totalBigrams == SumFreq(B)
        totalRollRate == Frac(SumFreq({b \in B : sameHand(b) /\ isRoll(b)}), totalBigrams)
    IN IF totalBigrams = 0 THEN <<0, 1>>
       ELSE IF FracLess(<<3, 10>>, totalRollRate) THEN <<1, 1>>
       ELSE IF FracLess(<<3, 20>>, totalRollRate) THEN <<7, 10>>
       ELSE Frac(8 * totalRollRate[1], 3 * totalRollRate[2])

\* in tenths of a penalty point per occurrence
calculateLayerPenalty(layout, cs, data) ==
    LET C == CountedChars(layout, cs, data)
        \* "if len(bigram) == 2": every bigram of the frequency model
        All == {[char1 |-> b[1], char2 |-> b[2], freq |-> data.BigramFreq[b]] :
                   b \in DOMAIN data.BigramFreq}
        totalFreq == SumFreq(C) + SumFreq(All)
        totalPenalty ==
            SumFreq({Times(5, c) : c \in {x \in C : x.char \in shiftChars}})
            + SumFreq({Times(10, c) :
                          c \in {x \in C : x.char \notin shiftChars /\ x.char \in altGrChars}})
            + SumFreq({Times(3, b) :
                          b \in {x \in All : x.char1 \in shiftChars /\ x.char2 \in shiftChars}})
            + SumFreq({Times(7, b) :
                          b \in {x \in All :
                                    \/ x.char1 \in shiftChars /\ x.char2 \in altGrChars
                                    \/ x.char1 \in altGrChars /\ x.char2 \in shiftChars}})
    IN IF totalFreq = 0 THEN <<1, 1>>
       ELSE Frac(10 * totalFreq, 10 * totalFreq + totalPenalty)

calculateHomeRowBonus(layout, cs, data) ==
    LET C == CountedChars(layout, cs, data)
        totalFreq == SumFreq(C)
        homeRowUsage == Frac(SumFreq({c \in C : c.pos \in 10..18}), totalFreq)
    IN IF totalFreq = 0 THEN <<0, 1>>
       ELSE IF FracLess(<<2, 5>>, homeRowUsage)
            THEN FracAdd(<<1, 1>>, FracScale(2, FracAdd(homeRowUsage, <<-2, 5>>)))
       ELSE IF FracLess(<<3, 10>>, homeRowUsage)
            THEN Frac(5 * homeRowUsage[1], 2 * homeRowUsage[2])
       ELSE Frac(5 * homeRowUsage[1], 4 * homeRowUsage[2])

calculateRollRatioTarget(layout, cs, data) ==
    LET B == {b \in PlacedBigrams(layout, data) : sameHand(b)}
        sameHandBigrams == SumFreq(B)
        rollRatio == Frac(SumFreq({b \in B : isRoll(b)}), sameHandBigrams)
        d == FracAdd(rollRatio, <<-7, 20>>)
        deviation == <<Abs(d[1]), d[2]>>
        score == FracAdd(<<1, 1>>, FracScale(-2, deviation))
    IN IF sameHandBigrams = 0 THEN <<0, 1>>
       ELSE IF score[1] < 0 THEN <<0, 1>> ELSE score

\* bonusScore in tenths, divided by 3
calculateThresholdBonuses(layout, cs, data, alternationScore, rollScore) ==
    LET B == PlacedBigrams(layout, data)
        totalBigrams == SumFreq(B)
        sfbRate == Frac(SumFreq({b \in B : b.finger1 = b.finger2}), totalBigrams)
        alternation == IF FracLess(<<3, 5>>, alternationScore) THEN 10
                       ELSE IF FracLess(<<9, 20>>, alternationScore) THEN 6
                       ELSE IF FracLess(<<3, 10>>, alternationScore) THEN 3
                       ELSE 0
        roll == IF FracLess(<<2, 5>>, rollScore) THEN 8
                ELSE IF FracLess(<<1, 5>>, rollScore) THEN 4
                ELSE 0
        sfb == IF totalBigrams = 0 THEN 0
               ELSE IF FracLess(sfbRate, <<1, 50>>) THEN 10
               ELSE IF FracLess(sfbRate, <<1, 20>>) THEN 5
               ELSE 0
    IN Frac(alternation + roll + sfb, 30)

\* ergonomicScores in tenths
calculatePositionMatching(layout, cs, data) ==
    LET ergonomicScores ==
            <<4, 5, 7, 8, 8, 8, 8, 7, 5, 5, 6, 7, 9, 10, 10, 10, 10, 9, 7,
              3, 4, 5, 6, 6, 6, 5>>
        C == {c \in CountedChars(layout, cs, data) : c.pos >= 0}
        totalWeight == SumFreq(C)
    IN IF totalWeight = 0 THEN <<0, 1>>
       ELSE Frac(SumFreq({Times(ergonomicScores[c.pos + 1], c) : c \in C}), 10 * totalWeight)

\* the weighted sum of Evaluate, in hundredths: the twelve exact terms summed,
\* the finger-balance term beside them
ComponentSum(layout, cs, data) ==
    LET w == DefaultWeights
        alternationScore == calculateHandAlternation(layout, cs, data)
        rollScore == calculateRollQuality(layout, cs, data)
        terms == <<FracScale(w.FingerDistance, calculateFingerDistance(layout, cs, data)),
                   FracScale(w.HandAlternation, alternationScore),
                   FracScale(w.RowJumping, calculateRowJumping(layout, cs, data)),
                   FracScale(w.BigramEfficiency, calculateBigramEfficiency(layout, cs, data)),
                   FracScale(w.SameFingerBigrams, calculateSameFingerBigrams(layout, cs, data)),
                   FracScale(w.LateralStretches, calculateLateralStretches(layout, cs, data)),
                   FracScale(w.RollQuality, rollScore),
                   FracScale(w.LayerPenalty, calculateLayerPenalty(layout, cs, data)),
                   FracScale(w.HomeRowBonus, calculateHomeRowBonus(layout, cs, data)),
                   FracScale(w.RollRatioTarget, calculateRollRatioTarget(layout, cs, data)),
                   FracScale(w.ThresholdBonuses,
                             calculateThresholdBonuses(layout, cs, data,
                                                       alternationScore, rollScore)),
                   FracScale(w.PositionMatching, calculatePositionMatching(layout, cs, data))>>
        RECURSIVE Total(_)
        Total(i) == IF i > Len(terms) THEN <<0, 1>> ELSE FracAdd(terms[i], Total(i + 1))
    IN [sum |-> Total(1),
        balance |-> calculateFingerBalance(layout, cs, data)]

\* the fitness of an invalid layout or of a nil set
ZeroFitness == [sum |-> <<0, 1>>, balance |-> [zero |-> TRUE, spread |-> <<0, 1>>]]

EvaluateData(layout, cs, data) ==
    IF cs = NilCharset THEN ZeroFitness
    ELSE IF ~IsValid(cs, layout) THEN ZeroFitness
    ELSE ComponentSum(layout, cs, data)

\* the characters a frequency model may count
DataChars == 1..CustomSize

\* KeyloggerData.AddBigram called count times for the bigram
AddBigramTimes(data, bigram, count) ==
    [data EXCEPT !.BigramFreq =
        IF bigram \in DOMAIN @
        THEN [@ EXCEPT ![bigram] = @ + count]
        ELSE [b \in DOMAIN @ \cup {bigram} |-> IF b = bigram THEN count ELSE @[b]]]

\* a valid layout and a frequency model that has no bigram yet; every character
\* was seen as often as its code says, or none was seen
FitnessInit ==
    /\ \E cs \in {AlphabetOnly, FullKeyboardCharset} :
       \E layout \in Shuffles(cs) :
       \E seen \in BOOLEAN :
          LET data == [CharFrequency |-> [c \in DataChars |-> IF seen THEN c ELSE 0],
                       BigramFreq |-> [b \in {} |-> 0]]
          IN /\ opIn = [op |-> "Evaluate", layout |-> layout, charset |-> cs]
             /\ opOut = [op |-> "Evaluate", data |-> data, added |-> <<>>,
                         before |-> EvaluateData(layout, cs, data),
                         fitness |-> EvaluateData(layout, cs, data)]
    /\ RunIdle

\* a bigram is added to the frequency model and the layout evaluated again
AddBigramAndEvaluate ==
    /\ opOut.op = "Evaluate"
    /\ \E char1 \in DataChars : \E char2 \in DataChars : \E count \in 1..MaxDigramCount :
          LET bigram == <<char1, char2>>
              data == AddBigramTimes(opOut.data, bigram, count)
          IN /\ Cardinality(DOMAIN data.BigramFreq) <= MaxDigrams
             /\ data.BigramFreq[bigram] <= MaxDigramCount
             /\ opOut' = [op |-> "Evaluate", data |-> data, added |-> bigram,
                          before |-> opOut.fitness,
                          fitness |-> EvaluateData(opIn.layout, opIn.charset, data)]
    /\ UNCHANGED <<opIn, runVars>>

SpecFitness == FitnessInit /\ [][AddBigramAndEvaluate]_vars

----------------------------------------------------------------------------
(* Run with an observer that may fail.  The callback has no error result:    *)
(* the one way it can fail is a panic, and Run calls it directly, with no    *)
(* deferred recover anywhere on the way.                                     *)

\* one generation in which the callback is called and panics: the locals of Run
\* are as the loop body left them, and the panic unwinds Run
GenerationObserverFails ==
    /\ pc = "loop"
    /\ generation < maxGens(config)
    /\ ~cancelled
    /\ \E new \in Evolve(population, config) :
          LET b == LoopBody(new, generation, config,
                            [bestIndividual |-> bestIndividual, bestFitness |-> bestFitness,
                             bestInitialized |-> bestInitialized],
                            lastBestFitness, convergenceCount)
              calls == Callbacks(b.stop, generation, b.best.bestIndividual)
          IN /\ calls # <<>>
             /\ population' = new
             /\ handed' = EvolveHands(population, new, config, charset)
             /\ bestIndividual' = b.best.bestIndividual
             /\ bestFitness' = b.best.bestFitness
             /\ bestInitialized' = b.best.bestInitialized
             /\ convergenceCount' = b.convergenceCount
             /\ lastBestFitness' = b.lastBestFitness
             /\ observed' = Append(observed, calls[1])
    /\ pc' = "panic"
    /\ stopReason' = "observer"
    /\ UNCHANGED <<opVars, config, charset, cancelled, generation, result, err>>

InitObserver == Init /\ charset = AlphabetOnly /\ config.PopulationSize < LargePopulation

NextObserver == Start \/ Generation \/ GenerationObserverFails \/ Finish

SpecObserver == InitObserver /\ [][NextObserver]_vars

----------------------------------------------------------------------------
(* CharacterSet.IsValid called on any layout, over the built-in sets and     *)
(* over sets made by NewCharacterSet from a slice with a repeated or a null  *)
(* character.                                                                *)

IsValidCharsets ==
    {AlphabetOnly, FullKeyboardCharset,
     NewCharacterSet("repeated", <<1, 1>>), NewCharacterSet("null", <<Null, 1>>)}

IsValidInit ==
    /\ \E cs \in IsValidCharsets : \E n \in 0..(FullSize + 1) :
       \E layout \in AnyLayouts(n, FullSize + 1) :
          opIn = [op |-> "IsValid", charset |-> cs, layout |-> layout]
    /\ opOut = [op |-> "none"]
    /\ RunIdle

ApplyIsValid ==
    /\ opIn.op = "IsValid"
    /\ opOut.op = "none"
    /\ opOut' = [op |-> "IsValid", out |-> IsValid(opIn.charset, opIn.layout)]
    /\ UNCHANGED <<opIn, runVars>>

SpecIsValid == IsValidInit /\ [][ApplyIsValid]_vars

----------------------------------------------------------------------------
(* Mutator.Apply with the five mutation methods.  The individual holds the   *)
(* address of its layout; the values of rand.Intn and rand.Float64 are       *)
(* inputs of the call; positions are counted from 0 as in the source.        *)

MutationMethods ==
    {"SwapMutation", "InsertionMutation", "InversionMutation", "ScrambleMutation",
     "DisplacementMutation"}

\* the insertion that puts the element at destPos and shifts nothing
insertionWithoutShift(layout, sourcePos, destPos) ==
    [layout EXCEPT ![destPos + 1] = layout[sourcePos + 1]]

\* insertionMutation: the element at sourcePos is taken out, the elements between
\* are shifted by one towards it, and it is put at destPos
insertionMutation(layout, sourcePos, destPos) ==
    [i \in 1..Len(layout) |->
        IF i - 1 = destPos THEN layout[sourcePos + 1]
        ELSE IF sourcePos < destPos /\ sourcePos <= i - 1 /\ i - 1 < destPos THEN layout[i + 1]
        ELSE IF sourcePos > destPos /\ destPos < i - 1 /\ i - 1 <= sourcePos THEN layout[i - 1]
        ELSE layout[i]]

\* the loop of inversionMutation: "for pos1 < pos2" swaps the two ends and moves
\* inwards
RECURSIVE InversionLoop(_, _, _)
InversionLoop(layout, pos1, pos2) ==
    IF pos1 < pos2
    THEN InversionLoop([layout EXCEPT ![pos1 + 1] = layout[pos2 + 1],
                                      ![pos2 + 1] = layout[pos1 + 1]],
                       pos1 + 1, pos2 - 1)
    ELSE layout

inversionMutation(layout, pos1, pos2) ==
    IF pos1 > pos2 THEN InversionLoop(layout, pos2, pos1)
    ELSE InversionLoop(layout, pos1, pos2)

\* Fisher-Yates on the subsequence from index i down: js[i] is rand.Intn(i + 1)
RECURSIVE FisherYates(_, _, _)
FisherYates(subsequence, i, js) ==
    IF i <= 0 THEN subsequence
    ELSE FisherYates([subsequence EXCEPT ![i + 1] = subsequence[js[i] + 1],
                                         ![js[i] + 1] = subsequence[i + 1]],
                     i - 1, js)

scrambleMutation(layout, p1, p2, js) ==
    LET pos1 == Min(p1, p2)
        pos2 == Max(p1, p2)
        subLen == pos2 - pos1 + 1
        subsequence == FisherYates([i \in 1..subLen |-> layout[pos1 + i]], subLen - 1, js)
    IN [i \in 1..Len(layout) |->
           IF pos1 <= i - 1 /\ i - 1 <= pos2 THEN subsequence[i - pos1] ELSE layout[i]]

\* the loop of displacementMutation over i, with newIdx and newLayout
RECURSIVE DisplacementLoop(_, _, _, _, _, _, _)
DisplacementLoop(layout, subStart, subEnd, newPos, i, newIdx, newLayout) ==
    LET length == Len(layout)
        subLen == subEnd - subStart + 1
    IN IF i >= length THEN [newIdx |-> newIdx, newLayout |-> newLayout]
       ELSE IF i >= subStart /\ i <= subEnd
            THEN DisplacementLoop(layout, subStart, subEnd, newPos, i + 1, newIdx, newLayout)
       ELSE LET inserted == newIdx = newPos
                idx1 == IF inserted THEN newIdx + subLen ELSE newIdx
                layout1 == IF inserted
                           THEN [k \in 1..length |->
                                    IF newIdx <= k - 1 /\ k - 1 < newIdx + subLen
                                    THEN layout[subStart + k - newIdx]
                                    ELSE newLayout[k]]
                           ELSE newLayout
            IN IF idx1 < length
               THEN DisplacementLoop(layout, subStart, subEnd, newPos, i + 1, idx1 + 1,
                                     [layout1 EXCEPT ![idx1 + 1] = layout[i + 1]])
               ELSE DisplacementLoop(layout, subStart, subEnd, newPos, i + 1, idx1, layout1)

\* displacementMutation: r is rand.Intn(length - subStart)
displacementMutation(layout, subStart, r, newPos) ==
    LET length == Len(layout)
        subEnd == subStart + r
        subLen == subEnd - subStart + 1
        s == DisplacementLoop(layout, subStart, subEnd, newPos, 0, 0,
                              [k \in 1..length |-> Null])
    IN IF newPos >= subStart /\ newPos <= subEnd THEN layout
       ELSE IF newPos >= s.newIdx
            THEN [k \in 1..length |->
                     IF s.newIdx <= k - 1 /\ k - 1 < s.newIdx + subLen
                     THEN layout[subStart + k - s.newIdx]
                     ELSE s.newLayout[k]]
       ELSE s.newLayout

\* the layouts a method can make of a layout, over every value of its draws
MutatedLayouts(method, layout) ==
    LET length == Len(layout)
        P == 0..(length - 1)
    IN CASE method = "InsertionMutation" ->
              IF length < 2 THEN {layout}
              ELSE {insertionMutation(layout, s, d) : <<s, d>> \in {x \in P \X P : x[1] # x[2]}}
         [] method = "InversionMutation" ->
              IF length < 2 THEN {layout}
              ELSE {inversionMutation(layout, pq[1], pq[2]) : pq \in P \X P}
         [] method = "ScrambleMutation" ->
              IF length < 2 THEN {layout}
              ELSE UNION {{scrambleMutation(layout, pq[1], pq[2], js) :
                              js \in {f \in [1..Abs(pq[1] - pq[2]) -> P] :
                                         \A i \in DOMAIN f : f[i] <= i}} : pq \in P \X P}
         [] method = "DisplacementMutation" ->
              IF length < 3 THEN {layout}
              ELSE UNION {UNION {{displacementMutation(layout, subStart, r, newPos) :
                                     newPos \in 0..(length - r - 1)} :
                                 r \in 0..(length - subStart - 1)} :
                          subStart \in 0..(length - 2)}
         [] OTHER ->
              {swapMutation([Layout |-> layout], pq[1], pq[2]).Layout :
                  pq \in {x \in P \X P : x[1] # x[2] \/ length <= 1}}

\* Apply that mutates the layout of the individual it was given
MutatorApplyInPlace(heap, individual, method, rate, u) ==
    IF u > rate THEN {[heap |-> heap, ind |-> individual, mutated |-> FALSE]}
    ELSE {[heap |-> [heap EXCEPT ![individual.Layout] = l],
           ind |-> [individual EXCEPT !.Fitness = 0], mutated |-> TRUE] :
             l \in MutatedLayouts(method, heap[individual.Layout])}

\* Apply with the drawn number u, in hundredths: the individual itself, or its
\* clone with the method applied to the clone's layout and the fitness reset
MutatorApplyInHeap(heap, individual, method, rate, u) ==
    IF u > rate THEN {[heap |-> heap, ind |-> individual, mutated |-> FALSE]}
    ELSE LET c == CloneInHeap(heap, individual)
         IN {[heap |-> [c.heap EXCEPT ![c.ind.Layout] = l],
              ind |-> [c.ind EXCEPT !.Fitness = 0], mutated |-> TRUE] :
                l \in MutatedLayouts(method, c.heap[c.ind.Layout])}

\* the values rand.Float64() is taken from, in hundredths: it is below 1.0
Float64Values == {0, 50, 99}

MutateInit ==
    /\ \E cs \in {AlphabetOnly, FullKeyboardCharset, TestCharset} :
       \E layout \in Shuffles(cs) :
       \E method \in MutationMethods :
       \E rate \in {0, 50, 100} :
          opIn = [op |-> "Apply", method |-> method, rate |-> rate, charset |-> cs,
                  heap |-> <<layout>>, individual |-> [Layout |-> 1, Fitness |-> 50]]
    /\ opOut = [op |-> "none"]
    /\ RunIdle

ApplyMutator ==
    /\ opIn.op = "Apply"
    /\ opOut.op = "none"
    /\ \E u \in Float64Values :
       \E o \in MutatorApplyInHeap(opIn.heap, opIn.individual, opIn.method, opIn.rate, u) :
          opOut' = [op |-> "Apply", heap |-> o.heap, out |-> o.ind, mutated |-> o.mutated]
    /\ UNCHANGED <<opIn, runVars>>

SpecMutate == MutateInit /\ [][ApplyMutator]_vars

----------------------------------------------------------------------------
(* The other crossover methods: PMX, cycle and uniform crossover *)

\* the map built over the segment: for i from point1 to point2, when the parents
\* differ at i, mapping[char1] = char2 and mapping[char2] = char1, a later
\* assignment replacing an earlier one
RECURSIVE PMXMapping(_, _, _, _, _)
PMXMapping(layout1, layout2, i, point2, mapping) ==
    IF i > point2 THEN mapping
    ELSE LET char1 == layout1[i + 1]
             char2 == layout2[i + 1]
             m1 == [c \in DOMAIN mapping \cup {char1} |->
                        IF c = char1 THEN char2 ELSE mapping[c]]
             m2 == [c \in DOMAIN m1 \cup {char2} |->
                        IF c = char2 THEN char1 ELSE m1[c]]
         IN PMXMapping(layout1, layout2, i + 1, point2,
                       IF char1 # char2 THEN m2 ELSE mapping)

\* the loop 'for { if newChar, exists := mapping[char]; exists { char = newChar }
\* else { break } }': its only state is char, so it never ends once a character
\* comes back
RECURSIVE PMXResolve(_, _, _)
PMXResolve(mapping, char, seen) ==
    IF char \notin DOMAIN mapping THEN [hangs |-> FALSE, char |-> char]
    ELSE IF char \in seen THEN [hangs |-> TRUE, char |-> char]
    ELSE PMXResolve(mapping, mapping[char], seen \cup {char})

\* the loop over the positions outside the segment
RECURSIVE PMXConflicts(_, _, _, _, _)
PMXConflicts(mapping, point1, point2, i, s) ==
    IF i >= Len(s.child) \/ s.hangs THEN s
    ELSE IF i >= point1 /\ i <= point2
    THEN PMXConflicts(mapping, point1, point2, i + 1, s)
    ELSE LET r == PMXResolve(mapping, s.child[i + 1], {})
         IN PMXConflicts(mapping, point1, point2, i + 1,
                         [hangs |-> r.hangs,
                          child |-> [s.child EXCEPT ![i + 1] = r.char]])

\* partiallyMatchedCrossover with the two draws rand.IntN(length) given as r1, r2
partiallyMatchedCrossover(parent1, parent2, r1, r2) ==
    LET point1 == Min(r1, r2)
        point2 == Max(r1, r2)
        mapping == PMXMapping(parent1.Layout, parent2.Layout, point1, point2, <<>>)
        copied == [i \in 1..Len(parent1.Layout) |->
                      IF i - 1 >= point1 /\ i - 1 <= point2
                      THEN parent2.Layout[i] ELSE parent1.Layout[i]]
        s == PMXConflicts(mapping, point1, point2, 0,
                          [hangs |-> FALSE, child |-> copied])
    IN [hangs |-> s.hangs,
        child |-> NewIndividual(s.child, parent1.Charset, 0, 0)]

\* a trace that stops after its first position: the rest of the cycle is left to
\* later starts
TraceCycleFirstOnly(layout1, layout2, useParent1, current, s) ==
    [used |-> [s.used EXCEPT ![current + 1] = TRUE],
     child |-> [s.child EXCEPT ![current + 1] =
                    IF useParent1 THEN layout1[current + 1] ELSE layout2[current + 1]]]

\* the inner loop 'for !used[current]' of cycleCrossover, positions counted from 0
RECURSIVE TraceCycle(_, _, _, _, _)
TraceCycle(layout1, layout2, useParent1, current, s) ==
    IF s.used[current + 1] THEN s
    ELSE LET target == IF useParent1 THEN layout1[current + 1]
                       ELSE layout2[current + 1]
             otherParent == IF useParent1 THEN layout2 ELSE layout1
             found == {i \in 0..(Len(otherParent) - 1) : otherParent[i + 1] = target}
             next == IF found = {} THEN -1
                     ELSE CHOOSE i \in found : \A j \in found : i <= j
             s1 == [used |-> [s.used EXCEPT ![current + 1] = TRUE],
                    child |-> [s.child EXCEPT ![current + 1] = target]]
         IN IF next = -1 \/ next = current THEN s1
            ELSE TraceCycle(layout1, layout2, useParent1, next, s1)

\* the outer loop 'for start := range length'
RECURSIVE FindCycles(_, _, _, _)
FindCycles(layout1, layout2, start, s) ==
    IF start >= Len(layout1) THEN s
    ELSE IF s.used[start + 1] THEN FindCycles(layout1, layout2, start + 1, s)
    ELSE FindCycles(layout1, layout2, start + 1,
                    TraceCycle(layout1, layout2, start % 2 = 0, start, s))

cycleCrossover(parent1, parent2) ==
    LET length == Len(parent1.Layout)
        s == FindCycles(parent1.Layout, parent2.Layout, 0,
                        [used |-> [i \in 1..length |-> FALSE],
                         child |-> [i \in 1..length |-> Null]])
    IN NewIndividual(s.child, parent1.Charset, 0, 0)

\* first pass of uniformCrossover; fromFirst[i + 1] is 'rand.Float64() < 0.5' at i
RECURSIVE UniformFirstPass(_, _, _, _, _)
UniformFirstPass(layout1, layout2, fromFirst, i, s) ==
    IF i >= Len(layout1) THEN s
    ELSE LET char1 == layout1[i + 1]
             char2 == layout2[i + 1]
         IN UniformFirstPass(layout1, layout2, fromFirst, i + 1,
                IF fromFirst[i + 1]
                THEN IF char1 \notin s.used
                     THEN [s EXCEPT !.child[i + 1] = char1, !.used = @ \cup {char1}]
                     ELSE [s EXCEPT !.remaining2 = Append(@, char2)]
                ELSE IF char2 \notin s.used
                     THEN [s EXCEPT !.child[i + 1] = char2, !.used = @ \cup {char2}]
                     ELSE [s EXCEPT !.remaining1 = Append(@, char1)])

\* 'for remainingIdx < len(remaining)': the next unused character of remaining,
\* if any, goes to position i
RECURSIVE UniformNextUnused(_, _, _)
UniformNextUnused(remaining, i, s) ==
    IF s.remainingIdx >= Len(remaining) THEN s
    ELSE LET char == remaining[s.remainingIdx + 1] IN
         IF char \notin s.used
         THEN [s EXCEPT !.child[i + 1] = char, !.used = @ \cup {char},
                        !.remainingIdx = @ + 1]
         ELSE UniformNextUnused(remaining, i, [s EXCEPT !.remainingIdx = @ + 1])

\* second pass: the empty positions (zero rune) take from remaining
RECURSIVE UniformSecondPass(_, _, _)
UniformSecondPass(remaining, i, s) ==
    IF i >= Len(s.child) THEN s
    ELSE UniformSecondPass(remaining, i + 1,
                           IF s.child[i + 1] = 0
                           THEN UniformNextUnused(remaining, i, s) ELSE s)

\* final pass: a position still empty takes the first unused character of
\* 'a'..'z', the characters of the alphabet character set
RECURSIVE UniformFinalPass(_, _)
UniformFinalPass(i, s) ==
    IF i >= Len(s.child) THEN s
    ELSE LET unused == {k \in 1..AlphabetSize :
                            AlphabetOnly.Characters[k] \notin s.used}
             char == AlphabetOnly.Characters[CHOOSE k \in unused :
                                                 \A j \in unused : k <= j]
         IN UniformFinalPass(i + 1,
                IF s.child[i + 1] = 0 /\ unused # {}
                THEN [s EXCEPT !.child[i + 1] = char, !.used = @ \cup {char}]
                ELSE s)

uniformCrossover(parent1, parent2, fromFirst) ==
    LET length == Len(parent1.Layout)
        s1 == UniformFirstPass(parent1.Layout, parent2.Layout, fromFirst, 0,
                               [child |-> [i \in 1..length |-> 0], used |-> {},
                                remaining1 |-> <<>>, remaining2 |-> <<>>])
        s2 == UniformSecondPass(s1.remaining1 \o s1.remaining2, 0,
                                [child |-> s1.child, used |-> s1.used,
                                 remainingIdx |-> 0])
        s3 == UniformFinalPass(0, s2)
    IN NewIndividual(s3.child, parent1.Charset, 0, 0)

\* the crossover methods of Apply other than order crossover
CrossoverMethods == {"PartiallyMatchedCrossover", "CycleCrossover", "UniformCrossover"}

\* Apply on two valid parents over one character set, with the draws of the method
CrossoverInit ==
    /\ \E cs \in Charsets \cup {TestCharset} :
       \E l1 \in Shuffles(cs), l2 \in Shuffles(cs), method \in CrossoverMethods :
       \E r1 \in 0..(cs.Size - 1), r2 \in 0..(cs.Size - 1),
          fromFirst \in [1..cs.Size -> BOOLEAN] :
           /\ method # "PartiallyMatchedCrossover" => r1 = 0 /\ r2 = 0
           /\ method # "UniformCrossover" => \A i \in 1..cs.Size : fromFirst[i]
           /\ opIn = [method |-> method,
                      parent1 |-> NewIndividual(l1, cs, 50, 1),
                      parent2 |-> NewIndividual(l2, cs, 50, 1),
                      r1 |-> r1, r2 |-> r2, fromFirst |-> fromFirst]
    /\ opOut = [op |-> "none"]
    /\ RunIdle

ApplyPartiallyMatched ==
    /\ opIn.method = "PartiallyMatchedCrossover"
    /\ opOut.op = "none"
    /\ LET out == partiallyMatchedCrossover(opIn.parent1, opIn.parent2,
                                            opIn.r1, opIn.r2)
       IN opOut' = IF out.hangs THEN [op |-> "running"]
                   ELSE [op |-> "returned", child |-> out.child]
    /\ UNCHANGED <<opIn, runVars>>

ApplyCycle ==
    /\ opIn.method = "CycleCrossover"
    /\ opOut.op = "none"
    /\ opOut' = [op |-> "returned",
                 child |-> cycleCrossover(opIn.parent1, opIn.parent2)]
    /\ UNCHANGED <<opIn, runVars>>

ApplyUniform ==
    /\ opIn.method = "UniformCrossover"
    /\ opOut.op = "none"
    /\ opOut' = [op |-> "returned",
                 child |-> uniformCrossover(opIn.parent1, opIn.parent2,
                                            opIn.fromFirst)]
    /\ UNCHANGED <<opIn, runVars>>

CrossoverNext ==
    \/ ApplyPartiallyMatched
    \/ ApplyCycle
    \/ ApplyUniform

SpecCrossover == CrossoverInit /\ [][CrossoverNext]_vars

----------------------------------------------------------------------------
(* The layout storage of the individuals through Evolve: an individual is   *)
(* the address of its layout in the heap and its fitness.  The engine runs  *)
(* over the full keyboard set, as in the drivers, and with workers.         *)

\* number of passes of the loop followed by layout storage: for the small
\* populations, and for those with diversity maintenance
MaxStorageGen == 2
MaxLargeStorageGen == 1

\* the individual whose layout is at the address, as the operators on layouts
\* take it
InHeap(heap, ind, cs) == NewIndividual(heap[ind.Layout], cs, ind.Fitness, 0)

\* a selection that appends the winner itself, without Clone
RECURSIVE SelectSharing(_, _, _, _)
SelectSharing(heap, pop, size, count) ==
    IF count = 0 THEN {[heap |-> heap, inds |-> <<>>]}
    ELSE UNION {{[heap |-> s.heap,
                  inds |-> Append(s.inds, TournamentBest(t, 2, t[1]))] :
                    t \in [1..size -> Range(pop)]} :
                s \in SelectSharing(heap, pop, size, count - 1)}

\* tournamentSelect: count times, the winner of a tournament is cloned and the
\* clone appended
RECURSIVE SelectInHeap(_, _, _, _)
SelectInHeap(heap, pop, size, count) ==
    IF count = 0 THEN {[heap |-> heap, inds |-> <<>>]}
    ELSE UNION {{LET c == CloneInHeap(s.heap, TournamentBest(t, 2, t[1]))
                 IN [heap |-> c.heap, inds |-> Append(s.inds, c.ind)] :
                    t \in [1..size -> Range(pop)]} :
                s \in SelectInHeap(heap, pop, size, count - 1)}

\* one job of offspringWorker: the parents, the crossover into a new layout or
\* the clone of a parent, the mutation, ValidateChild on the child's own layout
OffspringInHeap(heap, pop, cfg, cs) ==
    LET parents == SelectInHeap(heap, pop, SelectorTournamentSize(cfg), 2)
        crossed(s) ==
            {[heap |-> Append(s.heap, o.child.Layout),
              ind |-> [Layout |-> Len(s.heap) + 1, Fitness |-> 0]] :
                o \in {x \in {OrderCrossover(InHeap(s.heap, s.inds[1], cs),
                                               InHeap(s.heap, s.inds[2], cs), r1, r2) :
                                   r1 \in 0..(cs.Size - 1), r2 \in 0..(cs.Size - 1)} :
                          ~x.panic}}
              \cup {CloneInHeap(s.heap, s.inds[1]), CloneInHeap(s.heap, s.inds[2])}
        mutated(c) ==
            UNION {MutatorApplyInHeap(c.heap, c.ind, "SwapMutation", 50, u) :
                      u \in Float64Values}
        validated(m) ==
            LET child == ValidateChild(InHeap(m.heap, m.ind, cs))
            IN [heap |-> [m.heap EXCEPT ![m.ind.Layout] = child.Layout],
                ind |-> [Layout |-> m.ind.Layout,
                         Fitness |-> Evaluate(child.Layout, child.Charset, cfg.data)]]
    IN {validated(m) : m \in UNION {mutated(c) : c \in UNION {crossed(s) : s \in parents}}}

\* generateOffspring: count jobs, each leaving its child in its slot
RECURSIVE OffspringInSlots(_, _, _, _, _)
OffspringInSlots(heap, pop, cfg, cs, count) ==
    IF count <= 0 THEN {[heap |-> heap, inds |-> <<>>]}
    ELSE UNION {{[heap |-> o.heap, inds |-> Append(s.inds, o.ind)] :
                    o \in OffspringInHeap(s.heap, pop, cfg, cs)} :
                s \in OffspringInSlots(heap, pop, cfg, cs, count - 1)}

\* the random individuals appended to the elites that were kept
RECURSIVE InjectInHeap(_, _, _, _)
InjectInHeap(s, cfg, cs, count) ==
    IF count <= 0 THEN {s}
    ELSE UNION {{[heap |-> Append(t.heap, ind.Layout),
                  inds |-> Append(t.inds,
                              [Layout |-> Len(t.heap) + 1,
                               Fitness |-> Evaluate(ind.Layout, ind.Charset, cfg.data)])] :
                    ind \in NewRandomIndividual} :
                t \in InjectInHeap(s, cfg, cs, count - 1)}

\* Evolve on a population that is evaluated: the elites, cut and completed by
\* random individuals on low diversity, then the offspring
EvolveInHeap(heap, pop, cfg, cs) ==
    LET evaluated == [i \in 1..Len(pop) |-> InHeap(heap, pop[i], cs)]
        a == AdaptiveElitismCount(cfg)
        eliteCount == EliteCount(evaluated, cfg)
        elites == {[heap |-> s.heap, inds |-> SubSeq(s.inds, 1, eliteCount)] :
                      s \in SelectInHeap(heap, pop, SelectorTournamentSize(cfg), a)}
        completed == UNION {InjectInHeap(s, cfg, cs, a - eliteCount) : s \in elites}
    IN UNION {{[heap |-> o.heap, population |-> e.inds \o o.inds] :
                  o \in OffspringInSlots(e.heap, pop, cfg, cs, cfg.PopulationSize - a)} :
              e \in completed}

\* the configurations followed: a small population and one with diversity
\* maintenance, with workers
StorageConfigs ==
    {cfg \in Configs : /\ cfg.ParallelWorkers > 0
                       /\ cfg.data = "first"
                       /\ cfg.ElitismCount = cfg.PopulationSize - 1
                       /\ cfg.MaxGenerations = MaxGen
                       /\ cfg.ConvergenceStops = 0
                       /\ cfg.ConvergenceTolerance = 0}

\* Run has created and evaluated its population: every individual has a layout
\* of its own
StorageInit ==
    /\ \E cfg \in StorageConfigs :
       \E layouts \in [1..cfg.PopulationSize ->
                          {FullKeyboardCharset.Characters, <<2, 1, 3>>}] :
          /\ opIn = [op |-> "storage", config |-> cfg]
          /\ opOut = [op |-> "storage", generation |-> 0, heap |-> layouts,
                      population |-> [i \in 1..Len(layouts) |->
                          [Layout |-> i,
                           Fitness |-> Evaluate(layouts[i], FullKeyboardCharset, cfg.data)]],
                      best |-> [Layout |-> 0, Fitness |-> 0],
                      bestFitness |-> -100, bestInitialized |-> FALSE]
    /\ RunIdle

\* one pass of the loop of Run: Evolve and the scan for the best
StorageGeneration ==
    /\ opOut.op = "storage"
    /\ opOut.generation < IF UseDiversityMaintenance(opIn.config)
                          THEN MaxLargeStorageGen ELSE MaxStorageGen
    /\ \E e \in EvolveInHeap(opOut.heap, opOut.population, opIn.config,
                              FullKeyboardCharset) :
          LET s == FindBestInHeap(e.population, 1,
                       [heap |-> e.heap, best |-> opOut.best,
                        bestFitness |-> opOut.bestFitness,
                        bestInitialized |-> opOut.bestInitialized])
          IN opOut' = [opOut EXCEPT !.heap = s.heap,
                                    !.population = e.population,
                                    !.best = s.best,
                                    !.bestFitness = s.bestFitness,
                                    !.bestInitialized = s.bestInitialized,
                                    !.generation = @ + 1]
    /\ UNCHANGED <<opIn, runVars>>

SpecStorage == StorageInit /\ [][StorageGeneration]_vars

----------------------------------------------------------------------------
(* The memory the offspring workers of one generation touch.  Between two   *)
(* workers of one call of generateOffspring there is no synchronisation, so *)
(* any two of their accesses are concurrent.                                *)

\* what one job reads before the mutation: SelectParents reads the population
\* and the selector's configuration, the crossover branch reads
\* config.CrossoverRate and the crossover method
ReadsBeforeMutation(w) ==
    {[worker |-> w, location |-> l, owner |-> 0, kind |-> "read"] :
        l \in {"population", "selector.config", "config", "crossover.method"}}

\* AdaptiveMutator.Apply: reads its bounds and target; when the draw is at most
\* the adjusted rate, 'am.baseMutator.rate = adjustedRate' and then
\* baseMutator.Apply, which reads rate and method
AdaptiveMutatorAccesses(w, mutates) ==
    {[worker |-> w, location |-> l, owner |-> 0, kind |-> "read"] :
        l \in {"adaptiveMutator.minRate", "adaptiveMutator.maxRate",
               "adaptiveMutator.diversityTarget"}}
      \cup (IF mutates
            THEN {[worker |-> w, location |-> "baseMutator.rate", owner |-> 0, kind |-> "write"],
                  [worker |-> w, location |-> "baseMutator.rate", owner |-> 0, kind |-> "read"],
                  [worker |-> w, location |-> "baseMutator.method", owner |-> 0, kind |-> "read"]}
            ELSE {})

\* Mutator.Apply of the evolver's own mutator reads rate and method
MutatorAccesses(w) ==
    {[worker |-> w, location |-> l, owner |-> 0, kind |-> "read"] :
        l \in {"mutator.rate", "mutator.method"}}

\* the workers of one call of generateOffspring, with jobs to take; adaptive is
\* 'pe.useDiversityMaintenance && pe.adaptiveMutator != nil'
AccessInit ==
    /\ \E adaptive \in BOOLEAN, jobs \in 1..OffspringJobs :
          /\ opIn = [op |-> "accesses", adaptive |-> adaptive, jobs |-> jobs]
          /\ opOut = [op |-> "accesses", jobs |-> jobs,
                      at |-> [w \in 1..OffspringWorkers |-> "receive"],
                      accesses |-> {}]
    /\ RunIdle

\* a worker takes a job, selects the parents and makes its child by crossover or
\* by cloning a parent
WorkerMakesChild(w) ==
    /\ opOut.op = "accesses"
    /\ opOut.at[w] = "receive"
    /\ opOut.jobs > 0
    /\ opOut' = [opOut EXCEPT
                   !.jobs = @ - 1,
                   !.at[w] = "mutate",
                   !.accesses = @ \cup ReadsBeforeMutation(w)
                       \cup {[worker |-> w, location |-> "child", owner |-> w, kind |-> "write"]}]
    /\ UNCHANGED <<opIn, runVars>>

\* the worker applies the mutation, adaptive if enabled
WorkerMutates(w) ==
    /\ opOut.op = "accesses"
    /\ opOut.at[w] = "mutate"
    /\ \E mutates \in BOOLEAN :
          opOut' = [opOut EXCEPT
                      !.at[w] = "validate",
                      !.accesses = @ \cup
                          (IF opIn.adaptive THEN AdaptiveMutatorAccesses(w, mutates)
                           ELSE MutatorAccesses(w))
                          \cup {[worker |-> w, location |-> "child", owner |-> w,
                                 kind |-> IF mutates THEN "write" ELSE "read"]}]
    /\ UNCHANGED <<opIn, runVars>>

\* ValidateChild on the worker's child, and the result is sent
WorkerValidates(w) ==
    /\ opOut.op = "accesses"
    /\ opOut.at[w] = "validate"
    /\ opOut' = [opOut EXCEPT
                   !.at[w] = "receive",
                   !.accesses = @ \cup
                       {[worker |-> w, location |-> "child", owner |-> w, kind |-> "write"]}]
    /\ UNCHANGED <<opIn, runVars>>

AccessNext ==
    \E w \in 1..OffspringWorkers :
        \/ WorkerMakesChild(w)
        \/ WorkerMutates(w)
        \/ WorkerValidates(w)

SpecAccess == AccessInit /\ [][AccessNext]_vars

----------------------------------------------------------------------------
(* WorkerPool: Submit, Close and the worker goroutines, step by step.  The   *)
(* jobs are functions that return.  A select takes any one of its cases that *)
(* can proceed; a send on a closed channel can proceed, and panics.          *)

\* the goroutines that call Submit
Submitters == 2
\* the calls of Submit each of them makes
MaxSubmits == 2

\* NewWorkerPool: the workers are started, the channel has room for
\* workerCount*2 jobs
NewWorkerPool(workerCount) ==
    LET count == IF workerCount <= 0 THEN NumCPU ELSE workerCount
    IN [op |-> "workerPool",
        workerCount |-> count,
        capacity |-> count * 2,
        jobs |-> 0,
        jobsClosed |-> FALSE,
        ctxDone |-> FALSE,
        worker |-> [w \in 1..count |-> "select"],
        submit |-> [s \in 1..Submitters |-> "idle"],
        calls |-> [s \in 1..Submitters |-> 0],
        close |-> "idle",
        panicked |-> FALSE]

WorkerPoolInit ==
    /\ \E workerCount \in 0..NumCPU :
          /\ opIn = [op |-> "workerPool", workerCount |-> workerCount]
          /\ opOut = NewWorkerPool(workerCount)
    /\ RunIdle

\* the process is alive: an unrecovered panic ends every goroutine
PoolAlive == opOut.op = "workerPool" /\ ~opOut.panicked

\* a goroutine calls Submit and comes to its select
SubmitCalled(s) ==
    /\ PoolAlive
    /\ opOut.submit[s] \in {"idle", "returned"}
    /\ opOut.calls[s] < MaxSubmits
    /\ opOut' = [opOut EXCEPT !.submit[s] = "select", !.calls[s] = @ + 1]
    /\ UNCHANGED <<opIn, runVars>>

\* no case of the select can proceed: the goroutine parks on both channels
SubmitParks(s) ==
    /\ PoolAlive
    /\ opOut.submit[s] = "select"
    /\ ~opOut.jobsClosed
    /\ opOut.jobs >= opOut.capacity
    /\ ~opOut.ctxDone
    /\ opOut' = [opOut EXCEPT !.submit[s] = "parked"]
    /\ UNCHANGED <<opIn, runVars>>

\* 'case wp.jobs <- job' on the open channel with room
SubmitSends(s) ==
    /\ PoolAlive
    /\ opOut.submit[s] \in {"select", "parked"}
    /\ ~opOut.jobsClosed
    /\ opOut.jobs < opOut.capacity
    /\ opOut' = [opOut EXCEPT !.submit[s] = "returned", !.jobs = @ + 1]
    /\ UNCHANGED <<opIn, runVars>>

\* 'case wp.jobs <- job' taken when the channel is closed: the send panics.  A
\* Submit parked in its select has been woken by the cancel before the close, so
\* only a select evaluated after the close can take this case
SubmitSendsOnClosed(s) ==
    /\ PoolAlive
    /\ opOut.submit[s] = "select"
    /\ opOut.jobsClosed
    /\ opOut' = [opOut EXCEPT !.submit[s] = "panic", !.panicked = TRUE]
    /\ UNCHANGED <<opIn, runVars>>

\* 'case <-wp.ctx.Done()'
SubmitDone(s) ==
    /\ PoolAlive
    /\ opOut.submit[s] \in {"select", "parked"}
    /\ opOut.ctxDone
    /\ opOut' = [opOut EXCEPT !.submit[s] = "returned"]
    /\ UNCHANGED <<opIn, runVars>>

\* Close: 'wp.cancel()'
CloseCancels ==
    /\ PoolAlive
    /\ opOut.close = "idle"
    /\ opOut' = [opOut EXCEPT !.close = "cancelled", !.ctxDone = TRUE]
    /\ UNCHANGED <<opIn, runVars>>

\* Close: 'close(wp.jobs)'
CloseClosesJobs ==
    /\ PoolAlive
    /\ opOut.close = "cancelled"
    /\ opOut' = [opOut EXCEPT !.close = "wait", !.jobsClosed = TRUE]
    /\ UNCHANGED <<opIn, runVars>>

\* Close: 'wp.wg.Wait()' returns when every worker has called Done
CloseReturns ==
    /\ PoolAlive
    /\ opOut.close = "wait"
    /\ \A w \in 1..opOut.workerCount : opOut.worker[w] = "exited"
    /\ opOut' = [opOut EXCEPT !.close = "returned"]
    /\ UNCHANGED <<opIn, runVars>>

\* worker: 'case job, ok := <-wp.jobs' with a job in the channel
PoolWorkerTakesJob(w) ==
    /\ PoolAlive
    /\ w \in 1..opOut.workerCount
    /\ opOut.worker[w] = "select"
    /\ opOut.jobs > 0
    /\ opOut' = [opOut EXCEPT !.worker[w] = "job", !.jobs = @ - 1]
    /\ UNCHANGED <<opIn, runVars>>

\* worker: 'job()' returns
PoolWorkerJobReturns(w) ==
    /\ PoolAlive
    /\ w \in 1..opOut.workerCount
    /\ opOut.worker[w] = "job"
    /\ opOut' = [opOut EXCEPT !.worker[w] = "select"]
    /\ UNCHANGED <<opIn, runVars>>

\* worker: the receive on the closed and drained channel gives !ok, or the
\* context is done; the deferred wg.Done runs
PoolWorkerExits(w) ==
    /\ PoolAlive
    /\ w \in 1..opOut.workerCount
    /\ opOut.worker[w] = "select"
    /\ \/ opOut.jobsClosed /\ opOut.jobs = 0
       \/ opOut.ctxDone
    /\ opOut' = [opOut EXCEPT !.worker[w] = "exited"]
    /\ UNCHANGED <<opIn, runVars>>

WorkerPoolNext ==
    \/ \E s \in 1..Submitters :
          \/ SubmitCalled(s)
          \/ SubmitParks(s)
          \/ SubmitSends(s)
          \/ SubmitSendsOnClosed(s)
          \/ SubmitDone(s)
    \/ CloseCancels
    \/ CloseClosesJobs
    \/ CloseReturns
    \/ \E w \in 1..NumCPU :
          \/ PoolWorkerTakesJob(w)
          \/ PoolWorkerJobReturns(w)
          \/ PoolWorkerExits(w)

SpecWorkerPool == WorkerPoolInit /\ [][WorkerPoolNext]_vars

----------------------------------------------------------------------------
(* Validity stated without the code's scan: the four invariants of a Layout *)

HasNull(layout) == \E i \in 1..Len(layout) : layout[i] = Null

HasForeign(cs, layout) ==
    \E i \in 1..Len(layout) : layout[i] \notin Range(cs.Characters)

HasDuplicate(layout) ==
    \E i, j \in 1..Len(layout) : i # j /\ layout[i] = layout[j]

IsPermutationOf(cs, layout) ==
    /\ Len(layout) = cs.Size
    /\ ~HasNull(layout)
    /\ ~HasForeign(cs, layout)
    /\ ~HasDuplicate(layout)

----------------------------------------------------------------------------
(* Claims *)

\* C1: order crossover of two valid parents over the same CharacterSet returns,
\* for every choice of the two cut points, without a panic, a child that is a
\* permutation of that CharacterSet (length N, no null, no duplicate) as it
\* stands, before any repair.
C1_OrderCrossoverValid ==
    opOut.op = "orderCrossover" =>
        /\ ~opOut.out.panic
        /\ opOut.out.child.Charset = opIn.parent1.Charset
        /\ IsPermutationOf(opIn.parent1.Charset, opOut.out.child.Layout)

\* C1's case: distinct parents over the full set, a proper segment, and a child
\* that is neither parent
C1_Witness ==
    /\ opOut.op = "orderCrossover"
    /\ opIn.parent1.Charset = TestCharset
    /\ opIn.r1 # opIn.r2
    /\ opOut.out.child.Layout # opIn.parent1.Layout
    /\ opOut.out.child.Layout # opIn.parent2.Layout

\* C2: the evaluator returns exactly 0 for every layout that holds a null code
\* point, a character outside the CharacterSet, a duplicate, or has a length
\* other than N, and also when the CharacterSet reference is nil.
C2_InvalidLayoutScoresZero ==
    opOut.op = "evaluate" =>
        ((\/ opIn.charset = NilCharset
          \/ Len(opIn.layout) # opIn.charset.Size
          \/ HasNull(opIn.layout)
          \/ HasForeign(opIn.charset, opIn.layout)
          \/ HasDuplicate(opIn.layout))
         => opOut.out = 0)

\* C2's case: a layout of the right length, without null or foreign character,
\* that repeats a character, under an evaluator that scores valid layouts > 0
C2_Witness ==
    /\ opOut.op = "evaluate"
    /\ opIn.charset = FullKeyboardCharset
    /\ opIn.data = "first"
    /\ Len(opIn.layout) = FullSize
    /\ ~HasNull(opIn.layout)
    /\ ~HasForeign(opIn.charset, opIn.layout)
    /\ HasDuplicate(opIn.layout)
    /\ opOut.out = 0

\* C3: ValidateChild applied to any layout of length N, whatever it holds,
\* returns a layout that is a permutation of the individual's CharacterSet
\* (the alphabet when the individual has none).
C3_RepairYieldsValid ==
    opOut.op = "validateChild" =>
        /\ opOut.out.Charset =
              (IF opIn.child.Charset = NilCharset THEN AlphabetOnly
               ELSE opIn.child.Charset)
        /\ IsPermutationOf(opOut.out.Charset, opOut.out.Layout)

\* C3's case: a layout with a null, a foreign character and a duplicate at once
C3_Witness ==
    /\ opOut.op = "validateChild"
    /\ opIn.child.Charset = TestCharset
    /\ HasNull(opIn.child.Layout)
    /\ \E i \in 1..CustomSize : opIn.child.Layout[i] = CustomSize + 1
    /\ HasDuplicate(opIn.child.Layout)
    /\ IsPermutationOf(opOut.out.Charset, opOut.out.Layout)

\* C4: every layout handed to the fitness evaluator during Run is a valid
\* permutation of the engine's character set: the individuals of the initial
\* population (for the full keyboard set too), and the population, the injected
\* individuals and the offspring of every generation.
C4_EvaluatorSeesOnlyValid == handed \subseteq {"valid"}

\* C4's case: the initial population of a run over the full keyboard set was
\* evaluated, and it held a layout that is not valid
C4_Witness ==
    /\ pc = "loop"
    /\ charset = FullKeyboardCharset
    /\ "invalid" \in handed
    /\ \E i \in 1..Len(population) : HasNull(population[i].Layout)

\* an individual that is a valid permutation of the engine's character set and
\* has a positive fitness
ValidAndPositive(ind) == IsPermutationOf(charset, ind.Layout) /\ ind.Fitness > 0

\* the run ended without cancellation after at least one completed generation
CompletedRun == pc = "done" /\ err = "nil" /\ Len(observed) >= 1

\* C5: when the evaluator gives every valid layout a positive score (and 0 to the
\* invalid ones), every best individual passed to the observer, and the
\* individual returned by a run that completed at least one generation without
\* cancellation, is a valid permutation of the engine's character set, without
\* null code point, and has a fitness above 0.
C5_BestIsValidAndPositive ==
    config.data = "first" =>
        /\ \A i \in 1..Len(observed) : ValidAndPositive(observed[i].best)
        /\ CompletedRun => ValidAndPositive(result)

\* C5's case: a run over the full keyboard set that completed two generations and
\* returned a valid individual with a positive fitness
C5_Witness ==
    /\ CompletedRun
    /\ config.data = "first"
    /\ charset = FullKeyboardCharset
    /\ Len(observed) >= 2
    /\ ValidAndPositive(result)

\* C6: the best-ever fitness values the observer receives, generation after
\* generation, never decrease, and the fitness of the individual Run returns is
\* the last (the largest) of them.
C6_BestEverNonDecreasing ==
    /\ \A i \in 1..Len(observed) : \A j \in i..Len(observed) :
          observed[i].best.Fitness <= observed[j].best.Fitness
    /\ pc = "done" /\ Len(observed) >= 1 =>
          result.Fitness = observed[Len(observed)].best.Fitness

\* C6's case: a finished run whose reported best-ever fitness rose at some
\* generation after the first and then stayed
C6_Witness ==
    /\ pc = "done"
    /\ Len(observed) >= 3
    /\ observed[1].best.Fitness < observed[2].best.Fitness
    /\ observed[2].best.Fitness = observed[3].best.Fitness
    /\ result.Fitness = observed[Len(observed)].best.Fitness

\* the best individual of an offspring population, by the scan of Run
BestOf(pop) ==
    FindBest(pop, 1, 0, [bestIndividual |-> ZeroIndividual, bestFitness |-> -100,
                         bestInitialized |-> FALSE])

\* both runs of generateOffspring have returned
BothRunsReturned == opOut.op = "generateOffspring" /\ opOut.run = 3

\* C7: two independent runs with the same configuration whose generators start
\* in the same state produce the same best fitness and the same best layout,
\* however the workers are scheduled; stated for the configurations that never
\* cross over, where no draw comes from the generator that cannot be seeded.
C7_SameSeedSameBest ==
    (BothRunsReturned /\ opIn.seeds[1] = opIn.seeds[2] /\ opIn.config.CrossoverRate = 0)
        => /\ BestOf(opOut.first).bestFitness = BestOf(opOut.offspring).bestFitness
           /\ BestOf(opOut.first).bestIndividual.Layout
                  = BestOf(opOut.offspring).bestIndividual.Layout

\* two runs from the same generator state have returned, without crossover
C7_Witness ==
    /\ BothRunsReturned
    /\ opIn.seeds[1] = opIn.seeds[2]
    /\ opIn.config.CrossoverRate = 0
    /\ opOut.first = opOut.offspring

\* C8: the observer is called exactly once per completed generation, with the
\* indices 0, 1, 2, ... in order and without gap, the generation of a stop by
\* convergence or by the 0.99 threshold included; a run that ends at its
\* generation limit has reported exactly MaxGenerations values.
C8_OneCallPerGeneration ==
    /\ \A i \in 1..Len(observed) : observed[i].generation = i - 1
    /\ pc = "loop" => Len(observed) = generation
    /\ pc = "done" /\ stopReason \in {"converged", "perfect"} => Len(observed) = generation + 1
    /\ pc = "done" /\ stopReason = "limit" => Len(observed) = config.MaxGenerations
    /\ pc = "done" /\ stopReason = "cancelled" => Len(observed) = generation

\* C8's case: a run stopped by convergence at its third generation, the observer
\* having been called for that generation too
C8_Witness ==
    /\ pc = "done"
    /\ stopReason = "converged"
    /\ generation = 2
    /\ Len(observed) = 3
    /\ observed[3].generation = 2

\* the number of generations at the end of the reported sequence whose best-ever
\* fitness is within tol of the generation before
RECURSIVE TrailingStagnation(_, _, _)
TrailingStagnation(obs, n, tol) ==
    IF n < 2 THEN 0
    ELSE IF Abs(obs[n].best.Fitness - obs[n - 1].best.Fitness) <= tol
         THEN 1 + TrailingStagnation(obs, n - 1, tol)
         ELSE 0

\* C9: with K > 0 the counter is, after every generation, the number of
\* consecutive generations (the first excepted) up to this one whose best-ever
\* fitness is within epsilon of the previous generation's: incremented on such a
\* generation, reset to 0 on any other.  The run stops by convergence exactly when
\* the counter reaches K and goes on while it is below K.  With K = 0 the run
\* never stops by convergence.
C9_ConvergenceCounter ==
    /\ config.ConvergenceStops > 0 /\ pc \in {"loop", "done"} =>
          /\ convergenceCount =
                 TrailingStagnation(observed, Len(observed), config.ConvergenceTolerance)
          /\ stopReason = "converged" <=> convergenceCount >= config.ConvergenceStops
    /\ config.ConvergenceStops = 0 => stopReason # "converged"

\* C9's case: with K = 2 the counter was reset by a change of the best-ever fitness
\* and then reached K, which stopped the run
C9_Witness ==
    /\ config.ConvergenceStops = 2
    /\ stopReason = "converged"
    /\ convergenceCount = 2
    /\ Len(observed) >= 4
    /\ \E i \in 2..(Len(observed) - 2) :
          Abs(observed[i].best.Fitness - observed[i - 1].best.Fitness) > config.ConvergenceTolerance

\* Run has returned
Terminated == pc = "done"

\* C10: with convergence enabled (K > 0) and MaxGenerations = 0, a run that is
\* never cancelled terminates, and it never goes on after K consecutive
\* generations without a change of the best-ever fitness beyond epsilon: it stops
\* within K generations of the start of the final stagnation, far below the
\* loop limit.
C10_UnlimitedRunTerminates ==
    /\ <>Terminated
    /\ [](pc = "loop" =>
            /\ TrailingStagnation(observed, Len(observed), config.ConvergenceTolerance)
                   < config.ConvergenceStops
            /\ generation < MaxInt)

\* C10's case: an unlimited run whose best-ever fitness rose, then stagnated for K
\* generations, at the last of which the run stopped
C10_Witness ==
    /\ pc = "done"
    /\ config.MaxGenerations = 0
    /\ stopReason = "converged"
    /\ Len(observed) > config.ConvergenceStops + 1
    /\ observed[1].best.Fitness < observed[Len(observed)].best.Fitness
    /\ TrailingStagnation(observed, Len(observed), config.ConvergenceTolerance)
           = config.ConvergenceStops

\* C11: once the context is cancelled while a generation is still to run, the
\* only step of Run is its return with the cancellation error and the best-ever
\* individual, which is the one last reported to the observer (the zero value
\* when nothing was reported); cancelled before the initial evaluation, Run
\* returns the error with the zero value.  A run that ended in a cancellation
\* never reports a nil error.
C11_CancelledRunReturnsBest ==
    /\ [][(cancelled /\ pc = "loop" /\ generation < maxGens(config))
              => (/\ pc' = "done"
                  /\ err' = "canceled"
                  /\ result' = bestIndividual
                  /\ observed' = observed
                  /\ (observed # <<>> => result' = observed[Len(observed)].best)
                  /\ (observed = <<>> => result' = ZeroIndividual))]_vars
    /\ [][(cancelled /\ pc = "new")
              => (/\ pc' = "done"
                  /\ err' = "canceled"
                  /\ result' = ZeroIndividual
                  /\ observed' = <<>>)]_vars
    /\ [](stopReason = "cancelled" => err = "canceled")

\* C11's case: a run cancelled after a generation was reported returns the
\* cancellation error with the individual last reported
C11_Witness ==
    /\ pc = "done"
    /\ err = "canceled"
    /\ observed # <<>>
    /\ result = observed[Len(observed)].best
    /\ result.Fitness > 0

\* the driver has returned from a run that was cancelled after at least one
\* generation was reported
CancelledAfterReport ==
    /\ opOut.op \in {"runFromReader", "runOptimization"}
    /\ err = "canceled"
    /\ observed # <<>>

\* C12: when a run started through the driver is cancelled after some generations
\* completed, the caller receives the best individual observed so far and the
\* fitness trajectory collected so far, annotated as cancelled.
C12_CancelledDriverReturnsBest ==
    CancelledAfterReport =>
        IF opOut.op = "runFromReader"
        THEN /\ opOut.best = <<bestIndividual>>
             /\ opOut.history = FitnessHistory(observed)
             /\ opOut.err = "canceled"
        ELSE /\ opOut.Layout = bestIndividual.Layout
             /\ opOut.BestFitness = bestIndividual.Fitness
             /\ opOut.FitnessHistory = FitnessHistory(observed)
             /\ opOut.Error = "Optimization was canceled"

\* C12's case: the driver has returned from a cancelled run whose observer had
\* received a valid best individual
C12_Witness ==
    /\ CancelledAfterReport
    /\ bestIndividual.Fitness > 0
    /\ opOut.op = "runFromReader"
    /\ opOut.err = "canceled"

\* C13: the snapshot passed to the observer shares no layout storage with the
\* engine's best-ever individual, with the population or with the value Run
\* returns, so whatever the observer writes to a snapshot, the best-ever
\* individual and the returned individual keep the layout the engine computed
\* and the population keeps valid layouts.
C13_SnapshotIsDeepCopy ==
    opOut.op = "snapshots" =>
        /\ \A k \in 1..Len(opOut.snapshots) :
              /\ opOut.snapshots[k].Layout # opOut.best.Layout
              /\ \A i \in 1..Len(opOut.population) :
                    opOut.snapshots[k].Layout # opOut.population[i].Layout
              /\ opOut.pc = "done" => opOut.snapshots[k].Layout # opOut.result.Layout
        /\ opOut.bestInitialized => opOut.heap[opOut.best.Layout] = opOut.computed
        /\ opOut.pc = "done" => opOut.heap[opOut.result.Layout] = opOut.computed
        /\ \A i \in 1..Len(opOut.population) :
              IsValid(AlphabetOnly, opOut.heap[opOut.population[i].Layout])

\* C13's case: the observer has written to a snapshot and Run has returned
C13_Witness ==
    /\ opOut.op = "snapshots"
    /\ opOut.pc = "done"
    /\ opOut.written # {}
    /\ opOut.result.Layout \in opOut.written
    /\ opOut.heap[opOut.result.Layout] # opOut.computed

\* C14: generations are strictly sequential: when a call of EvaluatePopulation
\* or generateOffspring is over, each of its workers has returned and each of its
\* results is collected, so no worker of an earlier call or generation is
\* running while the next selection, offspring generation or evaluation runs.
C14_GenerationsSequential ==
    opOut.op = "pools" =>
        /\ opOut.stragglers = {}
        /\ opOut.pc \in {"call", "returned", "finished"} =>
              /\ \A w \in 1..Len(opOut.pool.workers) : opOut.pool.workers[w].phase = "done"
              /\ opOut.pool.results = <<>>

\* C14's case: two workers of the second generation are at work
C14_Witness ==
    /\ opOut.op = "pools"
    /\ opOut.generation = 1
    /\ opOut.stage = "evolveEval"
    /\ opOut.pc = "collect"
    /\ Len(opOut.pool.workers) = 2
    /\ opOut.pool.workers[1].phase = "work"
    /\ opOut.pool.workers[2].phase = "send"

\* C15: in a call of EvaluatePopulation no index is received by a worker twice
\* and no slot is written twice; when the call returns nil every index was
\* received once, every slot was written once, and every Fitness is the
\* evaluator's value for the slot's layout.
C15_EveryIndexEvaluatedOnce ==
    (opOut.op = "pools" /\ opOut.stage # "offspring") =>
        /\ \A i \in 1..Len(opOut.pool.writes) :
              /\ opOut.pool.writes[i] <= 1
              /\ opOut.pool.dispatched[i] <= 1
        /\ (opOut.pc = "returned" /\ opOut.err = "nil") =>
              /\ \A i \in 1..Len(opOut.pool.writes) :
                    /\ opOut.pool.writes[i] = 1
                    /\ opOut.pool.dispatched[i] = 1
              /\ \A i \in 1..Len(opOut.items) :
                    opOut.items[i].Fitness
                        = Evaluate(opOut.items[i].Layout, opOut.items[i].Charset,
                                   opIn.config.data)

\* C15's case: the initial evaluation by two workers has returned nil with every
\* slot evaluated
C15_Witness ==
    /\ opOut.op = "pools"
    /\ opOut.stage = "initial"
    /\ opOut.pc = "returned"
    /\ opOut.err = "nil"
    /\ Len(opOut.pool.workers) = 2
    /\ \A i \in 1..Len(opOut.items) : opOut.items[i].Fitness > 0

\* the highest fitness of a population
MaxFitness(pop) ==
    CHOOSE f \in {pop[i].Fitness : i \in 1..Len(pop)} :
        \A i \in 1..Len(pop) : pop[i].Fitness <= f

\* C16: every completed generation with an elite count K >= 1 (and workers to
\* make the offspring) copies the K individuals of highest fitness unchanged to
\* the head of the next population;
\* in particular one of the first K individuals of the next population is an
\* individual of the current, evaluated, population with the highest fitness.
C16_ElitesAreTopK ==
    [][(observed' # observed /\ config.ElitismCount >= 1 /\ config.ParallelWorkers > 0)
          => LET evaluated == EvaluatePopulation(population, config.data)
             IN /\ \A k \in 1..config.ElitismCount :
                      /\ k <= Len(population')
                      /\ \E i \in 1..Len(evaluated) : population'[k] = evaluated[i]
                      /\ \A i \in 1..Len(evaluated) :
                            (\A j \in 1..config.ElitismCount : population'[j] # evaluated[i])
                                => evaluated[i].Fitness <= population'[k].Fitness
                /\ \E k \in 1..config.ElitismCount :
                      population'[k].Fitness = MaxFitness(evaluated)]_vars

\* C16's case: a generation with one elite has completed over a population whose
\* individuals differ in fitness, and the population still holds valid individuals
C16_Witness ==
    /\ pc \in {"loop", "done"}
    /\ observed # <<>>
    /\ config.ElitismCount >= 1
    /\ config.ParallelWorkers > 0
    /\ \E i, j \in 1..Len(population) :
          /\ population[i].Fitness > population[j].Fitness
          /\ population[j].Fitness > 0

\* C17: with ParallelWorkers = 0 the evaluation and the offspring generation
\* both start a positive number of workers, and when generateOffspring has
\* collected its results without cancellation every offspring slot was written
\* once with a child made by a worker, a valid individual.
C17_ZeroWorkersIsAutomatic ==
    (opOut.op = "pools" /\ opIn.config.ParallelWorkers = 0) =>
        /\ opOut.pc = "collect" => Len(opOut.pool.workers) > 0
        /\ (opOut.stage = "offspring" /\ opOut.pc = "returned" /\ ~opOut.cancelled) =>
              \A i \in 1..Len(opOut.items) :
                  /\ opOut.pool.writes[i] = 1
                  /\ IndividualIsValid(opOut.items[i])

\* C17's case: generateOffspring has collected its results in a run with
\* ParallelWorkers = 0 that was not cancelled
C17_Witness ==
    /\ opOut.op = "pools"
    /\ opIn.config.ParallelWorkers = 0
    /\ opOut.stage = "offspring"
    /\ opOut.pc = "returned"
    /\ ~opOut.cancelled
    /\ Len(opOut.items) > 0

\* the input-source checks of a validator pass
InputAccepted(v, c) ==
    CASE v = "Validate" -> (c.InputFile # "" \/ c.InputText # "") /\ c.InputFile # "missing"
      [] v = "ValidateForWASM" -> c.InputText # ""
      [] OTHER -> c.InputFile = "present"

\* the conditions under which validation is to fail
MustReject(c) ==
    \/ c.PopulationSize < 10
    \/ c.MaxGeneration < 0
    \/ c.MaxGeneration = 0 /\ c.ConvergenceStops = 0
    \/ c.ConvergenceStops < 0
    \/ c.ConvergenceTolerance < 0
    \/ c.MutationRate < 0 \/ c.MutationRate > 100
    \/ c.CrossoverRate < 0 \/ c.CrossoverRate > 100
    \/ c.ElitismCount < 0 \/ c.ElitismCount >= c.PopulationSize
    \/ c.WorkerCount < 0
    \/ c.SaveInterval < 0

\* C18: input-source checks aside, configuration validation returns an error if
\* and only if populationSize < 10, maxGenerations < 0, maxGenerations = 0 with
\* convergenceStops = 0, convergenceStops < 0, convergenceTolerance < 0, a rate
\* outside [0,1], eliteCount < 0 or >= populationSize, workerCount < 0 or
\* saveInterval < 0.
C18_ValidationRejectsExactly ==
    (opOut.op \in Validators /\ InputAccepted(opIn.op, opIn.config))
        => (opOut.err # "nil" <=> MustReject(opIn.config))

\* C18's case: a validator has accepted a configuration that sits on the limits
C18_Witness ==
    /\ opOut.op \in Validators
    /\ InputAccepted(opIn.op, opIn.config)
    /\ opOut.err = "nil"
    /\ opIn.config.PopulationSize = 10
    /\ opIn.config.ElitismCount = 9
    /\ opIn.config.MaxGeneration = 0
    /\ opIn.config.WorkerCount = 0

\* the member of tournament k that is to win: the first drawn among those of
\* highest fitness
FirstBestDrawn(k) ==
    LET draw == opIn.draws[k]
        fit(j) == opIn.population[draw[j] + 1].Fitness
        j0 == CHOOSE j \in 1..Len(draw) :
                 /\ \A m \in 1..Len(draw) : fit(m) <= fit(j)
                 /\ \A m \in 1..(j - 1) : fit(m) < fit(j)
    IN opIn.population[draw[j0] + 1]

\* C19: tournamentSelect asked for count individuals returns exactly count; each
\* has the layout and fitness of the first drawn among the members of highest
\* fitness of its tournament; each has layout storage of its own, apart from the
\* population's and from the other returned individuals', so whatever is written
\* to a returned individual the population keeps its layouts.
C19_TournamentSelect ==
    opOut.op = "tournamentSelect" =>
        /\ Len(opOut.selected) = opIn.count
        /\ \A k \in 1..Len(opOut.selected) :
              /\ opOut.selected[k].Fitness = FirstBestDrawn(k).Fitness
              /\ k \notin opOut.written =>
                    opOut.heap[opOut.selected[k].Layout] = opIn.layouts[FirstBestDrawn(k).Layout]
              /\ opOut.selected[k].Layout \notin 1..Len(opIn.layouts)
              /\ \A m \in 1..Len(opOut.selected) :
                    m # k => opOut.selected[m].Layout # opOut.selected[k].Layout
        /\ \A i \in 1..Len(opIn.layouts) : opOut.heap[i] = opIn.layouts[i]

\* C19's case: a tournament of three members drew two different layouts of equal
\* fitness, the second one first, and the caller wrote to the returned individual
C19_Witness ==
    /\ opOut.op = "tournamentSelect"
    /\ opIn.count = 2
    /\ opIn.TournamentSize = 3
    /\ opIn.layouts[opIn.draws[1][1] + 1] # opIn.layouts[opIn.draws[1][2] + 1]
    /\ opIn.population[opIn.draws[1][1] + 1].Fitness
           = opIn.population[opIn.draws[1][2] + 1].Fitness
    /\ opOut.written = {1}

\* the configuration a corpus gets: AdaptiveConfig's, or the driver's when the
\* user has set nothing
CorpusConfigured ==
    \/ opOut.op = "AdaptiveConfig"
    \/ opOut.op = "createGAConfig" /\ opIn.config = Default

\* C20: a corpus under 10K characters gets the default settings, a corpus of 10K
\* to 100K characters the medium settings (population 200), a corpus over 100K
\* characters the large-dataset settings (population 500, mutation rate at least
\* 0.3, at most 2 elites).
C20_AdaptiveByCorpusSize ==
    CorpusConfigured =>
        /\ opIn.dataSize < MediumDataSize => opOut.config = DefaultConfig
        /\ (opIn.dataSize >= MediumDataSize /\ opIn.dataSize <= LargeDataSize)
              => opOut.config.PopulationSize = 200
        /\ opIn.dataSize > LargeDataSize
              => /\ opOut.config.PopulationSize = 500
                 /\ opOut.config.MutationRate >= 30
                 /\ opOut.config.ElitismCount <= 2

\* C20's case: the driver, with nothing set by the user, has configured the
\* engine for a corpus of exactly 10K characters
C20_Witness ==
    /\ opOut.op = "createGAConfig"
    /\ opIn.config = Default
    /\ opIn.dataSize = MediumDataSize

\* C21: a digram with a character that the layout does not hold is skipped by
\* every component: adding it, with any count, to the frequency model leaves the
\* composite fitness of a valid layout as it was.
C21_AbsentDigramIgnored ==
    (/\ opOut.op = "Evaluate"
     /\ opOut.added # <<>>
     /\ \E i \in 1..2 : opOut.added[i] \notin Range(opIn.layout))
        => opOut.fitness = opOut.before

\* C21's case: a digram of a character of the layout and one outside it was
\* added to a frequency model that already had a digram of the layout
C21_Witness ==
    /\ opOut.op = "Evaluate"
    /\ opOut.added # <<>>
    /\ opOut.added[1] \in Range(opIn.layout)
    /\ opOut.added[2] \notin Range(opIn.layout)
    /\ \E b \in DOMAIN opOut.data.BigramFreq :
          b[1] \in Range(opIn.layout) /\ b[2] \in Range(opIn.layout)
    /\ opOut.fitness.sum # <<0, 1>>

\* C22: a failure inside the observer callback is not fatal: after it the engine
\* is still in its loop, or Run has returned its best individual without error.
C22_ObserverFailureNotFatal ==
    stopReason = "observer" =>
        \/ pc = "loop"
        \/ pc = "done" /\ err = "nil" /\ result = bestIndividual

\* C22's case: the observer has failed in a generation after the first one
C22_Witness ==
    /\ stopReason = "observer"
    /\ generation >= 1
    /\ Len(observed) = generation + 1

\* C23: every call of EvaluatePopulation and generateOffspring returns, whether
\* and whenever the context is cancelled; when it has returned each of its
\* workers has exited, and its job-feeding goroutine has exited or exits later
\* without touching the population.
C23_PoolsReturn ==
    /\ [](opOut.pc \in {"returned", "finished"} =>
              \A w \in 1..Len(opOut.pool.workers) : opOut.pool.workers[w].phase = "done")
    /\ (opOut.pc = "collect") ~> (opOut.pc = "returned")
    /\ <>[](opOut.pc = "finished" /\ opOut.senders = {} /\ opOut.stragglers = {})

\* C23's case: a call was cancelled and has returned while its sender still had
\* jobs to send
C23_Witness ==
    /\ opOut.op = "pools"
    /\ opOut.cancelled
    /\ opOut.pc = "call"
    /\ \E s \in opOut.senders : s.next < s.count

\* C24: IsValid(layout) is true exactly when the layout has the length N of the
\* set, holds no null code point, holds only characters of the set, and its
\* elements are pairwise distinct.
C24_IsValidExactly ==
    opOut.op = "IsValid" =>
        (opOut.out <=>
            /\ Len(opIn.layout) = opIn.charset.Size
            /\ \A i \in 1..Len(opIn.layout) : opIn.layout[i] # Null
            /\ \A i \in 1..Len(opIn.layout) : opIn.layout[i] \in Range(opIn.charset.Characters)
            /\ \A i \in 1..Len(opIn.layout) : \A j \in 1..Len(opIn.layout) :
                  i # j => opIn.layout[i] # opIn.layout[j])

\* C24's case: IsValid has accepted an arrangement of the full keyboard set that
\* is not the set's own order
C24_Witness ==
    /\ opOut.op = "IsValid"
    /\ opOut.out
    /\ opIn.charset = FullKeyboardCharset
    /\ opIn.layout # opIn.charset.Characters

\* how often char occurs in the layout
Occurrences(layout, char) == Cardinality({i \in 1..Len(layout) : layout[i] = char})

\* C25: every mutation method, applied to a valid layout, returns a valid layout
\* of the same length with every character as often as before, whatever the
\* random positions.
C25_MutationKeepsValid ==
    opOut.op = "Apply" =>
        LET before == opIn.heap[opIn.individual.Layout]
            after == opOut.heap[opOut.out.Layout]
        IN /\ Len(after) = Len(before)
           /\ \A char \in 0..(CustomSize + 1) :
                 Occurrences(after, char) = Occurrences(before, char)
           /\ IsValid(opIn.charset, after)

\* C25's case: displacement has moved a subsequence of a layout of the test set
C25_Witness ==
    /\ opOut.op = "Apply"
    /\ opIn.method = "DisplacementMutation"
    /\ opIn.charset = TestCharset
    /\ opOut.mutated
    /\ opOut.heap[opOut.out.Layout] # opIn.heap[opIn.individual.Layout]

\* C30: swap mutation with rate 1.0 on a valid layout of length 2 or more returns
\* a new individual whose layout differs from the input's in exactly two
\* positions, the two characters exchanged, and whose fitness is 0; the layout
\* and the fitness of the input individual are as before.
C30_SwapMutationFrame ==
    (/\ opOut.op = "Apply"
     /\ opIn.method = "SwapMutation"
     /\ opIn.rate = 100
     /\ Len(opIn.heap[opIn.individual.Layout]) >= 2)
        => LET before == opIn.heap[opIn.individual.Layout]
               after == opOut.heap[opOut.out.Layout]
           IN /\ opOut.out.Layout # opIn.individual.Layout
              /\ \E i \in 1..Len(before) : \E j \in 1..Len(before) :
                    /\ i # j
                    /\ after[i] = before[j] /\ after[j] = before[i]
                    /\ after[i] # before[i] /\ after[j] # before[j]
                    /\ \A k \in 1..Len(before) : k \notin {i, j} => after[k] = before[k]
              /\ opOut.out.Fitness = 0
              /\ opOut.heap[opIn.individual.Layout] = before
              /\ opIn.individual.Fitness = 50

\* C30's case: swap mutation with rate 1.0 has exchanged the first and the last
\* character of a layout of the full keyboard set
C30_Witness ==
    /\ opOut.op = "Apply"
    /\ opIn.method = "SwapMutation"
    /\ opIn.rate = 100
    /\ opIn.charset = FullKeyboardCharset
    /\ opOut.heap[opOut.out.Layout][1] = opIn.heap[opIn.individual.Layout][FullSize]
    /\ opOut.heap[opOut.out.Layout][FullSize] = opIn.heap[opIn.individual.Layout][1]

\* the elements of seq that are not in S, in their order
RECURSIVE Without(_, _)
Without(seq, S) ==
    IF seq = <<>> THEN <<>>
    ELSE IF Head(seq) \in S THEN Without(Tail(seq), S)
    ELSE <<Head(seq)>> \o Without(Tail(seq), S)

\* OX as described, for cut points p1 <= p2 counted from 0: the block of parent1
\* stays, and the other positions, taken from (p2 + 1) mod L on and wrapping, get
\* the characters of parent2 outside the block in the order of parent2 from
\* (p2 + 1) mod L on and wrapping
DescribedOX(layout1, layout2, p1, p2) ==
    LET L == Len(layout1)
        from == [k \in 1..L |-> ((p2 + 1 + (k - 1)) % L) + 1]
        block == {layout1[i + 1] : i \in p1..p2}
        positions == Without(from, {i + 1 : i \in p1..p2})
        chars == Without([k \in 1..L |-> layout2[from[k]]], block)
    IN [i \in 1..L |->
           IF i - 1 >= p1 /\ i - 1 <= p2 THEN layout1[i]
           ELSE chars[CHOOSE k \in 1..Len(positions) : positions[k] = i]]

\* C26: the child of order crossover is the one described: the block of parent1
\* between the cut points, the rest filled from position (p2 + 1) mod L on with
\* the other characters in the order of parent2 from index (p2 + 1) mod L on.
C26_OrderCrossoverAsDescribed ==
    (opOut.op = "orderCrossover" /\ ~opOut.out.panic) =>
        opOut.out.child.Layout
            = DescribedOX(opIn.parent1.Layout, opIn.parent2.Layout,
                          Min(opIn.r1, opIn.r2), Max(opIn.r1, opIn.r2))

\* C26's case: order crossover of two different parents with a block that ends
\* before the last position and begins after the first
C26_Witness ==
    /\ opOut.op = "orderCrossover"
    /\ ~opOut.out.panic
    /\ opIn.parent1.Layout # opIn.parent2.Layout
    /\ Min(opIn.r1, opIn.r2) > 0
    /\ Max(opIn.r1, opIn.r2) < Len(opIn.parent1.Layout) - 1

\* C27: PMX on two valid parents over one character set returns, for every pair
\* of cut points, and its child is a valid permutation of the set.
C27_PMXTerminatesValid ==
    opIn.method = "PartiallyMatchedCrossover" =>
        /\ opOut.op # "running"
        /\ opOut.op = "returned" =>
               IsPermutationOf(opIn.parent1.Charset, opOut.child.Layout)

\* C27's case: PMX was applied to parents whose segments hold different
\* characters, so that a position outside the segment has a conflict
C27_Witness ==
    /\ opIn.method = "PartiallyMatchedCrossover"
    /\ opOut.op # "none"
    /\ LET seg == {i + 1 : i \in Min(opIn.r1, opIn.r2)..Max(opIn.r1, opIn.r2)}
       IN {opIn.parent1.Layout[i] : i \in seg} # {opIn.parent2.Layout[i] : i \in seg}

\* C28: uniform crossover on two valid parents over any character set returns a
\* valid permutation of the set; its child has no null code point.
C28_UniformValidAnySet ==
    (opIn.method = "UniformCrossover" /\ opOut.op = "returned") =>
        /\ ~HasNull(opOut.child.Layout)
        /\ IsPermutationOf(opIn.parent1.Charset, opOut.child.Layout)

\* C28's case: uniform crossover over a set that is not a-z, where the choice
\* of parents left a position to be filled after the first pass
C28_Witness ==
    /\ opIn.method = "UniformCrossover"
    /\ opOut.op = "returned"
    /\ opIn.parent1.Charset # AlphabetOnly
    /\ \E i \in 1..Len(opOut.child.Layout) :
           opOut.child.Layout[i] \notin {opIn.parent1.Layout[i], opIn.parent2.Layout[i]}

\* the positions that every set of positions holding i and on which the two
\* layouts hold the same characters also holds: the cycle of i
CycleOf(layout1, layout2, i) ==
    {j \in 1..Len(layout1) :
        \A S \in SUBSET (1..Len(layout1)) :
            (i \in S /\ {layout1[k] : k \in S} = {layout2[k] : k \in S}) => j \in S}

\* C29: cycle crossover on two valid parents over one character set gives every
\* position the character one of the parents holds there, takes each cycle whole
\* from one parent, and returns a valid permutation of the set.
C29_CycleCrossover ==
    (opIn.method = "CycleCrossover" /\ opOut.op = "returned") =>
        LET layout1 == opIn.parent1.Layout
            layout2 == opIn.parent2.Layout
            child == opOut.child.Layout
        IN /\ Len(child) = Len(layout1)
           /\ \A i \in 1..Len(child) : child[i] \in {layout1[i], layout2[i]}
           /\ \A i \in 1..Len(child) :
                  \/ \A j \in CycleOf(layout1, layout2, i) : child[j] = layout1[j]
                  \/ \A j \in CycleOf(layout1, layout2, i) : child[j] = layout2[j]
           /\ IsPermutationOf(opIn.parent1.Charset, child)

\* C29's case: the parents have two cycles of two positions, and the child took
\* one from each parent
C29_Witness ==
    /\ opIn.method = "CycleCrossover"
    /\ opOut.op = "returned"
    /\ \E i, j \in 1..Len(opOut.child.Layout) :
           /\ Cardinality(CycleOf(opIn.parent1.Layout, opIn.parent2.Layout, i)) = 2
           /\ Cardinality(CycleOf(opIn.parent1.Layout, opIn.parent2.Layout, j)) = 2
           /\ opOut.child.Layout[i] = opIn.parent1.Layout[i]
           /\ opOut.child.Layout[i] # opIn.parent2.Layout[i]
           /\ opOut.child.Layout[j] = opIn.parent2.Layout[j]
           /\ opOut.child.Layout[j] # opIn.parent1.Layout[j]

\* C31: under a configuration that validation accepts (fewer elites than
\* individuals), the population has exactly PopulationSize individuals after
\* every generation that succeeded, with and without diversity maintenance.
C31_PopulationSizeKept ==
    (config \in Configs /\ config.ElitismCount < config.PopulationSize
        /\ pc \in {"loop", "done"} /\ Len(observed) >= 1) =>
        Len(population) = config.PopulationSize

\* C31's case: a generation succeeded on a population with diversity
\* maintenance, whose two elites are cut to one on low diversity
C31_Witness ==
    /\ pc \in {"loop", "done"}
    /\ Len(observed) >= 1
    /\ UseDiversityMaintenance(config)
    /\ AdaptiveElitismCount(config) = 2
    /\ Len(population) = config.PopulationSize

\* C34: the engine configuration the driver builds has the population size, the
\* maximum of generations, the convergence window and the convergence tolerance
\* of the application configuration, in the adaptive branch and outside it.
C34_DriverHonoursSettings ==
    opOut.op = "createGAConfig" =>
        /\ opOut.config.PopulationSize = opIn.config.PopulationSize
        /\ opOut.config.MaxGenerations = opIn.config.MaxGeneration
        /\ opOut.config.ConvergenceStops = opIn.config.ConvergenceStops
        /\ opOut.config.ConvergenceTolerance = opIn.config.ConvergenceTolerance

\* C34's case: the driver built the configuration in the adaptive branch from
\* settings of the user that differ from the adaptive table
C34_Witness ==
    /\ opOut.op = "createGAConfig"
    /\ IsUsingDefaultGeneticParams(opIn.config)
    /\ opIn.config.PopulationSize # AdaptiveConfig(opIn.dataSize).PopulationSize
    /\ opIn.config.ConvergenceStops > 0

\* C32: repair keeps the character of every position that holds the first
\* occurrence of a character of the set, gives the other positions, from left to
\* right, the missing characters in the order of the set, and returns a valid
\* layout as it is; repairing the result again changes nothing.
C32_RepairOnlyInvalidSlots ==
    opOut.op = "validateChild" =>
        LET cs == opOut.out.Charset
            before == opIn.child.Layout
            after == opOut.out.Layout
            kept == {i \in 1..Len(before) :
                        /\ before[i] # Null
                        /\ before[i] \in Range(cs.Characters)
                        /\ \A j \in 1..(i - 1) : before[j] # before[i]}
            invalid == Without([i \in 1..Len(before) |-> i], kept)
            missing == Without(cs.Characters, Range(before))
        IN /\ Len(after) = Len(before)
           /\ \A i \in kept : after[i] = before[i]
           /\ Len(invalid) = Len(missing)
           /\ \A k \in 1..Len(invalid) : after[invalid[k]] = missing[k]
           /\ IsPermutationOf(cs, before) => after = before
           /\ ValidateChild(opOut.out) = opOut.out

\* C32's case: a layout with a repeated character and a null or foreign one was
\* repaired, so that two positions were kept and two were filled
C32_Witness ==
    /\ opOut.op = "validateChild"
    /\ HasDuplicate(opIn.child.Layout)
    /\ HasNull(opIn.child.Layout) \/ HasForeign(opOut.out.Charset, opIn.child.Layout)
    /\ Cardinality({i \in 1..Len(opIn.child.Layout) :
                       opOut.out.Layout[i] # opIn.child.Layout[i]}) >= 2
    /\ \E i \in 1..Len(opIn.child.Layout) : opOut.out.Layout[i] = opIn.child.Layout[i]

\* the last generation, among the first k observed, in which the best fitness
\* was greater than in the generation before; 0 when there is none
LastIncrease(k) ==
    LET rises == {j \in 2..k : observed[j].best.Fitness > observed[j - 1].best.Fitness}
    IN IF rises = {} THEN 0
       ELSE observed[CHOOSE j \in rises : \A i \in rises : i <= j].generation

\* C33: the Age of every snapshot given to the observer, and of the individual
\* Run returns, is the index of the last generation in which the best fitness
\* so far strictly increased, and 0 if it never increased after generation 0.
C33_AgeIsLastImprovement ==
    /\ \A k \in 1..Len(observed) :
           /\ observed[k].generation = k - 1
           /\ observed[k].best.Age = LastIncrease(k)
    /\ pc = "done" => result.Age = LastIncrease(Len(observed))

\* C33's case: Run returned an individual that became the best in generation 1
\* or later, after at least one more generation
C33_Witness ==
    /\ pc = "done"
    /\ err = "nil"
    /\ result.Age >= 1
    /\ Len(observed) > result.Age + 1

\* C35: when every layout evaluates to 0.0, Run does not fail: it ends with a nil
\* error, at the limit of generations or on convergence, and what it returns and
\* what it shows the observer is the individual at index 0 of the first evolved
\* population, taken once and never replaced.
C35_ZeroFitnessRun ==
    config.data = "zero" =>
        /\ pc # "panic"
        /\ pc = "done" => /\ err = "nil"
                          /\ stopReason \in {"limit", "converged"}
                          /\ bestInitialized
                          /\ result = bestIndividual
        /\ (pc = "loop" /\ generation = 1) => bestIndividual = Clone(population[1])
        /\ \A k \in 1..Len(observed) : observed[k].best = observed[1].best
        /\ observed # <<>> => bestIndividual = observed[1].best

\* C35's case: a run over the zero evaluator went through several generations
\* and its best individual is a layout of the engine's character set
C35_Witness ==
    /\ config.data = "zero"
    /\ pc = "loop"
    /\ generation >= 2
    /\ bestInitialized
    /\ bestIndividual.Charset = charset

\* the unlimited runs end only on convergence, at the perfection threshold or on
\* cancellation
UnlimitedEndsByStop ==
    (config.MaxGenerations = 0 /\ config.ConvergenceStops > 0 /\ pc = "done") =>
        stopReason \in {"converged", "perfect", "cancelled"}

\* C36: MaxGenerations = 0 means no limit of generations and needs convergence:
\* with ConvergenceStops > 0 the loop ends only on convergence, at the perfection
\* threshold or on cancellation; with ConvergenceStops = 0 Run never returns a
\* nil error together with an empty best individual.
C36_ZeroGenerationsNeedsConvergence ==
    /\ UnlimitedEndsByStop
    /\ (config.MaxGenerations = 0 /\ config.ConvergenceStops = 0) =>
           ~(pc = "done" /\ err = "nil" /\ Len(result.Layout) = 0)

\* C36's case: Run has returned under MaxGenerations = 0 without convergence
C36_Witness ==
    /\ config.MaxGenerations = 0
    /\ config.ConvergenceStops = 0
    /\ pc = "done"
    /\ ~cancelled

\* C37: every individual of the next generation has layout storage of its own:
\* it shares it with no individual of the current generation, with no other
\* individual of the next generation and with the engine's best individual.
C37_FreshLayoutStorage ==
    [][opOut.op = "storage" =>
          LET next == opOut'.population
          IN /\ \A i \in 1..Len(next) :
                    /\ \A j \in 1..Len(opOut.population) :
                           next[i].Layout # opOut.population[j].Layout
                    /\ \A j \in 1..Len(next) : j # i => next[i].Layout # next[j].Layout
                    /\ next[i].Layout # opOut.best.Layout
                    /\ next[i].Layout # opOut'.best.Layout
             /\ \A a \in 1..Len(opOut.heap) : opOut'.heap[a] = opOut.heap[a]]_vars

\* C37's case: a generation was evolved under diversity maintenance, so that
\* elites, an injected individual or a second elite, and an offspring were placed
C37_Witness ==
    /\ opOut.op = "storage"
    /\ opOut.generation = 1
    /\ UseDiversityMaintenance(opIn.config)
    /\ AdaptiveElitismCount(opIn.config) = 2

\* C38: among the offspring workers of one generation no location is written by
\* one worker and read or written by another.
C38_WorkersShareNoWrites ==
    opOut.op = "accesses" =>
        \A a, b \in opOut.accesses :
            (a.worker # b.worker /\ a.location = b.location /\ a.owner = b.owner) =>
                (a.kind = "read" /\ b.kind = "read")

\* C38's case: two workers have each gone through the adaptive mutation, and at
\* least one of them mutated
C38_Witness ==
    /\ opOut.op = "accesses"
    /\ opIn.adaptive
    /\ \A w \in 1..OffspringWorkers :
           \E a \in opOut.accesses :
               a.worker = w /\ a.location = "adaptiveMutator.minRate"
    /\ \E a \in opOut.accesses : a.location = "baseMutator.rate"

\* C39: in every generation of an engine whose workers run, all individuals of
\* the population reference the engine's CharacterSet and have layout length N,
\* the injected random individuals included, and Evolve never indexes a layout
\* out of range.
C39_PopulationOverEngineCharset ==
    config.ParallelWorkers > 0 =>
        /\ pc # "panic"
        /\ pc \in {"loop", "done"} =>
              \A i \in 1..Len(population) :
                  /\ population[i].Charset = charset
                  /\ Len(population[i].Layout) = charset.Size

\* C39's case: an engine with diversity maintenance and workers, over a set other
\* than the full keyboard, has evolved a generation on low diversity
C39_Witness ==
    /\ config.ParallelWorkers > 0
    /\ UseDiversityMaintenance(config)
    /\ charset # FullKeyboardCharset
    /\ pc = "loop"
    /\ generation >= 1
    /\ Len(population) = config.PopulationSize
    /\ AdaptiveElitismCount(config) > Max(1, (AdaptiveElitismCount(config) * 2) \div 3)

\* C40: under any interleaving of Submit and Close no Submit panics on the
\* closed channel, every Submit that runs with or after Close can still return,
\* and Close has returned only when every worker goroutine has exited.
C40_WorkerPoolSafe ==
    opOut.op = "workerPool" =>
        /\ \A s \in 1..Submitters : opOut.submit[s] # "panic"
        /\ \A s \in 1..Submitters :
               (opOut.submit[s] \in {"select", "parked"} /\ opOut.ctxDone /\ ~opOut.panicked)
                   => ENABLED SubmitDone(s)
        /\ opOut.close = "returned" =>
               \A w \in 1..opOut.workerCount : opOut.worker[w] = "exited"

\* C40's case: a Submit is at its select after Close has closed the channel
C40_Witness ==
    /\ opOut.op = "workerPool"
    /\ opOut.jobsClosed
    /\ \E s \in 1..Submitters : opOut.submit[s] = "select"
    /\ \E s \in 1..Submitters : opOut.submit[s] = "returned"

====
